---- MODULE Spec2Model ----
(***************************************************************************)
(* A model of the leisql query pipeline: values and casts, the scalar and  *)
(* aggregate function registries, the expression type checker, the binder, *)
(* the executor builder, the pull-based executors and the session that     *)
(* drives them over the catalog and the in-memory row store.               *)
(*                                                                         *)
(* A function of the source that binds a result and goes on with it is     *)
(* written as a chain of operators: F_x is the rest of F after the local x *)
(* has been computed, and takes x as its last parameter.                   *)
(***************************************************************************)
EXTENDS Integers, Sequences, FiniteSets, TLC

VARIABLES
    catalog,         \* QueryContext.catalog.schemas: sequence of SchemaDefinition
    relations,       \* QueryContext.storage_mgr.relations: (schema, table) -> HeapTable.tuples
    current_schema,  \* QueryContext.current_schema
    pc,              \* "ready": the session waits for a statement; "done": a result is held
    last,            \* the statement last executed and what Session.execute returned
    inserted,        \* history: per relation, the rows the successful INSERTs wrote, in order
    probe            \* input and output of a pure function under test, or the
                     \* QueryContext before the statement being answered

vars == <<catalog, relations, current_schema, pc, last, inserted, probe>>

(***************************************************************************)
(* Bounds of the model.                                                    *)
(***************************************************************************)
\* rows a relation may hold before INSERT is no longer offered
MaxRows == 2
\* arguments of a function call offered to overload resolution
MaxArgs == 2
\* fractional digits written when a Float is rendered
FracDigits == 3

MaxInt == 2

(***************************************************************************)
(* Strings are sequences of one-character strings, so that parsing and     *)
(* formatting are computed.                                                *)
(***************************************************************************)
Digits == <<"0", "1", "2", "3", "4", "5", "6", "7", "8", "9">>

IsDigit(c) == \E i \in 1..Len(Digits) : Digits[i] = c

DigitVal(c) == (CHOOSE i \in 1..Len(Digits) : Digits[i] = c) - 1

\* The characters of the model's strings in byte order (String's Ord is bytewise).
ByteOrder == <<"+", "-", ".",
               "0", "1", "2", "3", "4", "5", "6", "7", "8", "9",
               "A", "E", "F", "L", "R", "S", "T", "U",
               "a", "e", "f", "l", "r", "s", "t", "u", "x", "y">>

ByteRank(c) == CHOOSE i \in 1..Len(ByteOrder) : ByteOrder[i] = c

\* str::to_lowercase on the model's characters
LowerChar(c) ==
    CASE c = "A" -> "a" [] c = "E" -> "e" [] c = "F" -> "f" [] c = "L" -> "l"
      [] c = "R" -> "r" [] c = "S" -> "s" [] c = "T" -> "t" [] c = "U" -> "u"
      [] OTHER -> c

to_lowercase(s) == [i \in 1..Len(s) |-> LowerChar(s[i])]

\* s < t for Strings: lexicographic on bytes
RECURSIVE StrLess(_, _)
StrLess(s, t) ==
    IF Len(t) = 0 THEN FALSE
    ELSE IF Len(s) = 0 THEN TRUE
    ELSE IF s[1] # t[1] THEN ByteRank(s[1]) < ByteRank(t[1])
    ELSE StrLess(Tail(s), Tail(t))

\* the sequences of seqs joined in order
RECURSIVE Concat(_)
Concat(seqs) == IF Len(seqs) = 0 THEN <<>> ELSE Head(seqs) \o Concat(Tail(seqs))

AllDigits(s) == \A i \in 1..Len(s) : IsDigit(s[i])

RECURSIVE DigitsValue(_)
DigitsValue(s) ==
    IF Len(s) = 0 THEN 0
    ELSE 10 * DigitsValue(SubSeq(s, 1, Len(s) - 1)) + DigitVal(s[Len(s)])

RECURSIVE Pow10(_)
Pow10(n) == IF n = 0 THEN 1 ELSE 10 * Pow10(n - 1)

NoParse == [ok |-> FALSE, num |-> 0, den |-> 1]

\* str::parse::<i64>: an optional sign, then one or more digits, nothing else
ParseInt(s) ==
    LET signed == Len(s) > 0 /\ s[1] \in {"+", "-"}
        body   == IF signed THEN Tail(s) ELSE s
    IN  IF Len(body) = 0 \/ ~AllDigits(body) THEN NoParse
        ELSE [ok |-> TRUE,
              num |-> IF signed /\ s[1] = "-" THEN 0 - DigitsValue(body) ELSE DigitsValue(body),
              den |-> 1]

RECURSIVE Gcd(_, _)
Gcd(a, b) == IF b = 0 THEN a ELSE Gcd(b, a % b)

Abs(n) == IF n < 0 THEN 0 - n ELSE n

\* A Float is an exact fraction num/den in lowest terms with den > 0.
Fraction(n, d) ==
    LET g == Gcd(Abs(n), d)
    IN  IF n = 0 THEN [num |-> 0, den |-> 1] ELSE [num |-> n \div g, den |-> d \div g]

IndexOf(s, cs) ==
    IF \E i \in 1..Len(s) : s[i] \in cs
    THEN CHOOSE i \in 1..Len(s) : s[i] \in cs /\ \A j \in 1..(i - 1) : s[j] \notin cs
    ELSE 0

\* ParseFloat, given f
ParseFloat_f(mantOk, expOk, f) ==
    IF mantOk /\ expOk THEN [ok |-> TRUE, num |-> f.num, den |-> f.den] ELSE NoParse

\* ParseFloat, given m
ParseFloat_m(neg, frac, mantOk, expOk, e, m) ==
    LET sm     == IF neg THEN 0 - m ELSE m
        shift  == e - Len(frac)
    IN  ParseFloat_f(mantOk, expOk,
                     IF shift >= 0 THEN Fraction(sm * Pow10(shift), 1)
                     ELSE Fraction(sm, Pow10(0 - shift)))

\* ParseFloat, given ex, mantOk
ParseFloat_ex(neg, epos, whole, frac, ex, mantOk) ==
    LET expOk  == epos = 0 \/ ex.ok
        e      == IF epos = 0 THEN 0 ELSE ex.num
    IN  ParseFloat_m(neg, frac, mantOk, expOk, e, DigitsValue(whole \o frac))

\* str::parse::<f64> on decimal literals: [sign] digits [. digits] [(e|E) [sign] digits],
\* with a digit on at least one side of the point
ParseFloat(s) ==
    LET signed == Len(s) > 0 /\ s[1] \in {"+", "-"}
        neg    == signed /\ s[1] = "-"
        body   == IF signed THEN Tail(s) ELSE s
        epos   == IndexOf(body, {"e", "E"})
        mant   == IF epos = 0 THEN body ELSE SubSeq(body, 1, epos - 1)
        expo   == IF epos = 0 THEN <<>> ELSE SubSeq(body, epos + 1, Len(body))
        ppos   == IndexOf(mant, {"."})
        whole  == IF ppos = 0 THEN mant ELSE SubSeq(mant, 1, ppos - 1)
        frac   == IF ppos = 0 THEN <<>> ELSE SubSeq(mant, ppos + 1, Len(mant))
    IN  ParseFloat_ex(neg, epos, whole, frac,
                      ParseInt(expo),
                      AllDigits(whole) /\ AllDigits(frac) /\ Len(whole) + Len(frac) > 0)

RECURSIVE NatToString(_)
NatToString(n) ==
    IF n < 10 THEN <<Digits[n + 1]>>
    ELSE NatToString(n \div 10) \o <<Digits[(n % 10) + 1]>>

\* a Display that drops the sign
IntToStringUnsigned(v) == IF v < 0 THEN NatToString(0 - v) ELSE NatToString(v)

\* i64's Display
IntToString(v) == IF v < 0 THEN <<"-">> \o NatToString(0 - v) ELSE NatToString(v)

RECURSIVE FracToString(_, _, _)
FracToString(r, den, left) ==
    IF r = 0 \/ left = 0 THEN <<>>
    ELSE <<Digits[((r * 10) \div den) + 1]>> \o FracToString((r * 10) % den, den, left - 1)

\* f64's Display: no exponent, no trailing ".0"; a fraction that does not end is cut
\* after FracDigits digits
FloatToString(num, den) ==
    LET a == Abs(num)
        w == a \div den
        r == a % den
    IN  (IF num < 0 THEN <<"-">> ELSE <<>>) \o NatToString(w)
        \o (IF r = 0 THEN <<>> ELSE <<".">> \o FracToString(r, den, FracDigits))

(***************************************************************************)
(* Datum and Type (core/datum.rs, core/types.rs).                          *)
(* A Datum is a record of one shape: t the variant, i the Int value, the   *)
(* Boolean as 0/1 or the Float's numerator, d the Float's denominator,     *)
(* s the String.                                                           *)
(***************************************************************************)
Type == {"Int", "Float", "String", "Boolean", "Null", "Any", "Never"}

ConcreteType == {"Int", "Float", "String", "Boolean"}

IntD(v) == [t |-> "Int", i |-> v, d |-> 1, s |-> <<>>]

FloatD(n, dn) == [t |-> "Float", i |-> Fraction(n, dn).num, d |-> Fraction(n, dn).den, s |-> <<>>]

StringD(str) == [t |-> "String", i |-> 0, d |-> 1, s |-> str]

BooleanD(b) == [t |-> "Boolean", i |-> IF b THEN 1 ELSE 0, d |-> 1, s |-> <<>>]

NullD == [t |-> "Null", i |-> 0, d |-> 1, s |-> <<>>]

is_null(x) == x.t = "Null"

typ(x) == x.t

\* an equality under which Null differs from Null
DatumEqNoNull(l, r) == l.t # "Null" /\ r.t # "Null" /\ l = r

\* impl PartialEq for Datum
DatumEq(l, r) ==
    CASE l.t = "Int" /\ r.t = "Int" -> l.i = r.i
      [] l.t = "Float" /\ r.t = "Float" -> l.i = r.i /\ l.d = r.d
      [] l.t = "String" /\ r.t = "String" -> l.s = r.s
      [] l.t = "Boolean" /\ r.t = "Boolean" -> l.i = r.i
      [] l.t = "Null" /\ r.t = "Null" -> TRUE
      [] OTHER -> FALSE

\* impl Display for Datum
DatumToString(x) ==
    CASE x.t = "Int" -> IntToString(x.i)
      [] x.t = "Float" -> FloatToString(x.i, x.d)
      [] x.t = "String" -> x.s
      [] x.t = "Boolean" -> IF x.i = 1 THEN <<"T", "R", "U", "E">> ELSE <<"F", "A", "L", "S", "E">>
      [] OTHER -> <<"N", "U", "L", "L">>

\* `f as i64`: truncation toward zero
FloatAsInt(num, den) == IF num < 0 THEN 0 - ((0 - num) \div den) ELSE num \div den

\* a cast that keeps the value whatever the type asked for
cast_kept(x, dest_typ) == x

\* Datum::cast
cast(x, dest_typ) ==
    CASE x.t = "Int" /\ dest_typ = "Int" -> IntD(x.i)
      [] x.t = "Int" /\ dest_typ = "String" -> StringD(IntToString(x.i))
      [] x.t = "Int" /\ dest_typ = "Boolean" -> BooleanD(x.i # 0)
      [] x.t = "Int" /\ dest_typ = "Float" -> FloatD(x.i, 1)
      [] x.t = "String" /\ dest_typ = "Int" ->
            IF ParseInt(x.s).ok THEN IntD(ParseInt(x.s).num) ELSE NullD
      [] x.t = "String" /\ dest_typ = "Float" ->
            IF ParseFloat(x.s).ok THEN FloatD(ParseFloat(x.s).num, ParseFloat(x.s).den) ELSE NullD
      [] x.t = "String" /\ dest_typ = "String" -> StringD(x.s)
      [] x.t = "String" /\ dest_typ = "Boolean" ->
            IF to_lowercase(x.s) \in {<<"t", "r", "u", "e">>, <<"t">>} THEN BooleanD(TRUE)
            ELSE IF to_lowercase(x.s) \in {<<"f", "a", "l", "s", "e">>, <<"f">>} THEN BooleanD(FALSE)
            ELSE NullD
      [] x.t = "Null" -> x
      [] x.t = "Boolean" /\ dest_typ = "Int" -> IntD(IF x.i = 1 THEN 1 ELSE 0)
      [] x.t = "Boolean" /\ dest_typ = "Float" -> NullD
      [] x.t = "Boolean" /\ dest_typ = "String" -> StringD(DatumToString(x))
      [] x.t = "Boolean" /\ dest_typ = "Boolean" -> x
      [] x.t = "Float" /\ dest_typ = "Int" -> IntD(FloatAsInt(x.i, x.d))
      [] x.t = "Float" /\ dest_typ = "Float" -> x
      [] x.t = "Float" /\ dest_typ = "String" -> StringD(FloatToString(x.i, x.d))
      [] x.t = "Float" /\ dest_typ = "Boolean" -> BooleanD(x.i # 0)

(***************************************************************************)
(* Results: every fallible function returns [ok, err, v].  err is an       *)
(* ErrorKind (core/error.rs) or "Panic" for unimplemented!() and unwrap(). *)
(***************************************************************************)
Ok(v) == [ok |-> TRUE, err |-> "None", v |-> v]

Err(kind) == [ok |-> FALSE, err |-> kind, v |-> <<>>]

(***************************************************************************)
(* Scalar function registry (sql/expression/function.rs).                  *)
(***************************************************************************)
ScalarFunction(name, arg_types, ret_type) ==
    [name |-> name, arg_types |-> arg_types, ret_type |-> ret_type]

NoFunction == ScalarFunction("", <<>>, "Never")

\* register_arithmetic_functions: the overloads of + and -, in registration order
ArithmeticOverloads(name) ==
    << ScalarFunction(name, <<"Int", "Int">>, "Int"),
       ScalarFunction(name, <<"Float", "Float">>, "Float") >>

\* register_comparison_functions: = and <> have a Boolean overload, the others do not
ComparisonOverloads(name) ==
    << ScalarFunction(name, <<"Int", "Int">>, "Boolean"),
       ScalarFunction(name, <<"Float", "Float">>, "Boolean"),
       ScalarFunction(name, <<"String", "String">>, "Boolean") >>
    \o (IF name \in {"=", "<>"}
        THEN << ScalarFunction(name, <<"Boolean", "Boolean">>, "Boolean") >>
        ELSE <<>>)

\* register_cast_functions
CastOverloads(name) ==
    CASE name = "to_int" -> << ScalarFunction(name, <<"Any">>, "Int") >>
      [] name = "to_float" -> << ScalarFunction(name, <<"Any">>, "Float") >>
      [] name = "to_string" -> << ScalarFunction(name, <<"Any">>, "String") >>
      [] name = "to_boolean" -> << ScalarFunction(name, <<"Any">>, "Boolean") >>

ArithmeticNames == {"+", "-"}

ComparisonNames == {"=", "<>", "<", "<=", ">", ">="}

CastNames == {"to_int", "to_float", "to_string", "to_boolean"}

\* ScalarFunctionRegistry::search_candidates over BUILTIN_SCALAR_FUNCTIONS
search_candidates(name) ==
    CASE name \in ArithmeticNames -> ArithmeticOverloads(name)
      [] name \in ComparisonNames -> ComparisonOverloads(name)
      [] name \in CastNames -> CastOverloads(name)
      [] OTHER -> <<>>

FloatLess(a, b) == a.i * b.d < b.i * a.d

\* ScalarBody, given less, same
ScalarBody_less(func, l, r, ty, less, same) ==
    CASE func.name = "+" /\ ty = "Int" -> IntD(l.i + r.i)
      [] func.name = "+" /\ ty = "Float" -> FloatD(l.i * r.d + r.i * l.d, l.d * r.d)
      [] func.name = "-" /\ ty = "Int" -> IntD(l.i + r.i)
      [] func.name = "-" /\ ty = "Float" -> FloatD(l.i * r.d - r.i * l.d, l.d * r.d)
      [] func.name = "=" -> BooleanD(same)
      [] func.name = "<>" -> BooleanD(~same)
      [] func.name = "<" -> BooleanD(less)
      [] func.name = "<=" -> BooleanD(less \/ same)
      [] func.name = ">" -> BooleanD(~less /\ ~same)
      [] func.name = ">=" -> BooleanD(~less)
      [] func.name \in CastNames -> cast(l, func.ret_type)

\* the closures handed to register_null_passthrough, by name and overload
ScalarBody(func, args) ==
    LET l == args[1]
        r == args[2]
        ty == func.arg_types[1]
    IN  ScalarBody_less(func, l, r, ty,
                        CASE ty = "Int" -> l.i < r.i
                          [] ty = "Float" -> FloatLess(l, r)
                          [] ty = "String" -> StrLess(l.s, r.s)
                          [] OTHER -> FALSE,
                        CASE ty = "Int" -> l.i = r.i
                          [] ty = "Float" -> l.i = r.i /\ l.d = r.d
                          [] ty = "String" -> l.s = r.s
                          [] OTHER -> l.i = r.i)

\* ScalarFunctionRegistry::register_null_passthrough: the wrapper around every body
ScalarEval(func, args) ==
    IF \E i \in 1..Len(args) : is_null(args[i]) THEN NullD ELSE ScalarBody(func, args)

(***************************************************************************)
(* Typed expressions (sql/expression/mod.rs) and planner scalars           *)
(* (sql/planner/mod.rs), each a record of one shape.                       *)
(***************************************************************************)
ColumnE(index, ty) ==
    [k |-> "Column", index |-> index, ty |-> ty, datum |-> NullD, func |-> NoFunction, args |-> <<>>]

LiteralE(datum, ty) ==
    [k |-> "Literal", index |-> 0, ty |-> ty, datum |-> datum, func |-> NoFunction, args |-> <<>>]

FunctionE(func, args) ==
    [k |-> "Function", index |-> 0, ty |-> func.ret_type, datum |-> NullD, func |-> func, args |-> args]

\* Expression::typ
ExprTyp(e) == IF e.k = "Function" THEN e.func.ret_type ELSE e.ty

ScalarColumn(index) == [k |-> "Column", index |-> index, datum |-> NullD, name |-> "", args |-> <<>>]

ScalarLiteral(datum) == [k |-> "Literal", index |-> 0, datum |-> datum, name |-> "", args |-> <<>>]

ScalarFunctionCall(name, args) ==
    [k |-> "FunctionCall", index |-> 0, datum |-> NullD, name |-> name, args |-> args]

RECURSIVE ExprEval(_, _)

\* ExprEval, given rs
ExprEval_rs(e, rs) ==
    IF \E i \in 1..Len(rs) : ~rs[i].ok
    THEN rs[CHOOSE i \in 1..Len(rs) : ~rs[i].ok /\ \A j \in 1..(i - 1) : rs[j].ok]
    ELSE Ok(ScalarEval(e.func, [i \in 1..Len(rs) |-> rs[i].v]))

\* Expression::eval
ExprEval(e, tuple) ==
    CASE e.k = "Column" ->
            IF e.index + 1 <= Len(tuple) THEN Ok(tuple[e.index + 1]) ELSE Err("RuntimeError")
      [] e.k = "Literal" -> Ok(e.datum)
      [] e.k = "Function" ->
            ExprEval_rs(e, [i \in 1..Len(e.args) |-> ExprEval(e.args[i], tuple)])

(***************************************************************************)
(* Expression type checker (sql/expression/type_check.rs).                 *)
(***************************************************************************)
AUTO_CAST ==
    { <<"Int", "Float">>, <<"Int", "String">>, <<"Int", "Boolean">>,
      <<"Float", "Int">>, <<"Float", "String">>,
      <<"Boolean", "Int">>, <<"Boolean", "String">>,
      <<"Null", "Int">>, <<"Null", "Float">>, <<"Null", "Boolean">>, <<"Null", "String">>,
      <<"Int", "Any">>, <<"Float", "Any">>, <<"Boolean", "Any">>, <<"String", "Any">> }

can_auto_cast_to(from, to) == <<from, to>> \in AUTO_CAST

cast_func_name(target_type) ==
    CASE target_type = "Int" -> "to_int"
      [] target_type = "Float" -> "to_float"
      [] target_type = "String" -> "to_string"
      [] target_type = "Boolean" -> "to_boolean"

wrap_cast(expr, target_type) ==
    IF ExprTyp(expr) = target_type THEN expr
    ELSE FunctionE(search_candidates(cast_func_name(target_type))[1], <<expr>>)

\* the inner loop of type_check_function over the argument positions from i on:
\* [matched, arguments]
RECURSIVE MatchArguments(_, _, _, _)
MatchArguments(candidate, args, arguments, i) ==
    IF i > Len(args) THEN [matched |-> TRUE, arguments |-> arguments]
    ELSE IF candidate.arg_types[i] = "Any"
    THEN MatchArguments(candidate, args, arguments, i + 1)
    ELSE IF ExprTyp(args[i]) # candidate.arg_types[i]
            /\ ~can_auto_cast_to(ExprTyp(args[i]), candidate.arg_types[i])
    THEN [matched |-> FALSE, arguments |-> arguments]
    ELSE MatchArguments(candidate, args,
                        [arguments EXCEPT ![i] = wrap_cast(arguments[i], candidate.arg_types[i])],
                        i + 1)

RECURSIVE TryCandidatesLast(_, _, _)

\* TryCandidatesLast, given rest, m
TryCandidatesLast_rest(candidates, args, c, rest, m) ==
    IF rest.ok THEN rest
    ELSE IF Len(candidates[c].arg_types) = Len(args) /\ m.matched
    THEN Ok(FunctionE(candidates[c], m.arguments))
    ELSE rest

\* a resolution that returns the last accepting overload
TryCandidatesLast(candidates, args, c) ==
    IF c > Len(candidates) THEN Err("CatalogError")
    ELSE TryCandidatesLast_rest(candidates, args, c,
                                TryCandidatesLast(candidates, args, c + 1),
                                MatchArguments(candidates[c], args, args, 1))

RECURSIVE TryCandidates(_, _, _)

\* TryCandidates, given m
TryCandidates_m(candidates, args, c, m) ==
    IF m.matched THEN Ok(FunctionE(candidates[c], m.arguments))
    ELSE TryCandidates(candidates, args, c + 1)

\* the outer loop of type_check_function over the candidates from c on
TryCandidates(candidates, args, c) ==
    IF c > Len(candidates) THEN Err("CatalogError")
    ELSE IF Len(candidates[c].arg_types) # Len(args)
    THEN TryCandidates(candidates, args, c + 1)
    ELSE TryCandidates_m(candidates, args, c, MatchArguments(candidates[c], args, args, 1))

type_check_function(name, args) == TryCandidates(search_candidates(name), args, 1)

FirstErr(rs) == rs[CHOOSE i \in 1..Len(rs) : ~rs[i].ok /\ \A j \in 1..(i - 1) : rs[j].ok]

AllOk(rs) == \A i \in 1..Len(rs) : rs[i].ok

Values(rs) == [i \in 1..Len(rs) |-> rs[i].v]

\* impl ColumnTypeResolver for Schema (sql/runtime/builder.rs); a Schema is its column_types
resolve_column_type(schema, index) ==
    IF index + 1 <= Len(schema) THEN Ok(schema[index + 1]) ELSE Err("UnknownError")

RECURSIVE type_check(_, _)

\* type_check, given rs
type_check_rs(scalar, rs) ==
    IF AllOk(rs) THEN type_check_function(scalar.name, Values(rs)) ELSE FirstErr(rs)

type_check(schema, scalar) ==
    CASE scalar.k = "Column" ->
            LET ty == resolve_column_type(schema, scalar.index)
            IN  IF ty.ok THEN Ok(ColumnE(scalar.index, ty.v)) ELSE ty
      [] scalar.k = "Literal" -> Ok(LiteralE(scalar.datum, typ(scalar.datum)))
      [] scalar.k = "FunctionCall" ->
            type_check_rs(scalar,
                          [i \in 1..Len(scalar.args) |-> type_check(schema, scalar.args[i])])

(***************************************************************************)
(* Aggregate function registry (sql/expression/aggregate.rs).              *)
(***************************************************************************)
\* enum AggregateState: Count(u64), Sum(Datum), Avg(Datum, usize), MinMax(Datum)
AggregateState(k, value, count) == [k |-> k, value |-> value, count |-> count]

AggregateFunction(name, arg_types, ret_type, default_state) ==
    [name |-> name, arg_types |-> arg_types, ret_type |-> ret_type,
     default_state |-> default_state]

\* register_count
CountOverloads ==
    << AggregateFunction("count", <<>>, "Int", AggregateState("Count", NullD, 0)),
       AggregateFunction("count", <<"Any">>, "Int", AggregateState("Count", NullD, 0)) >>

\* register_sum
SumOverloads ==
    << AggregateFunction("sum", <<"Int">>, "Int", AggregateState("Sum", NullD, 0)),
       AggregateFunction("sum", <<"Float">>, "Float", AggregateState("Sum", NullD, 0)) >>

\* register_avg
AvgOverloads ==
    << AggregateFunction("avg", <<"Int">>, "Float", AggregateState("Avg", NullD, 0)),
       AggregateFunction("avg", <<"Float">>, "Float", AggregateState("Avg", NullD, 0)) >>

\* register_min_max
MinMaxOverloads(name) ==
    << AggregateFunction(name, <<"Int">>, "Int", AggregateState("MinMax", NullD, 0)),
       AggregateFunction(name, <<"Float">>, "Float", AggregateState("MinMax", NullD, 0)),
       AggregateFunction(name, <<"String">>, "String", AggregateState("MinMax", NullD, 0)) >>

AggregateNames == {"count", "sum", "avg", "min", "max"}

\* AggregateFunctionRegistry::contains over BUILTIN_AGGREGATE_FUNCTIONS
AggregateContains(name) == name \in AggregateNames

\* AggregateFunctionRegistry::search_candidates
aggregate_search_candidates(name) ==
    CASE name = "count" -> CountOverloads
      [] name = "sum" -> SumOverloads
      [] name = "avg" -> AvgOverloads
      [] name \in {"min", "max"} -> MinMaxOverloads(name)
      [] OTHER -> <<>>

DatumLess(ty, l, r) ==
    CASE ty = "Int" -> l.i < r.i
      [] ty = "Float" -> FloatLess(l, r)
      [] ty = "String" -> StrLess(l.s, r.s)

\* AccumulateBody, given st
AccumulateBody_st(args, st) ==
    AggregateState("Sum", FloatD(st.i * args[1].d + args[1].i * st.d, st.d * args[1].d), 0)

\* AccumulateBody, given st
AccumulateBody_st2(args, state, st) ==
    AggregateState("Avg", FloatD(st.i + args[1].i * st.d, st.d), state.count + 1)

\* AccumulateBody, given st
AccumulateBody_st3(args, state, st) ==
    AggregateState("Avg", FloatD(st.i * args[1].d + args[1].i * st.d, st.d * args[1].d),
                   state.count + 1)

\* the closures handed to register_skip_null, by name and overload
AccumulateBody(func, args, state) ==
    CASE func.name = "count" -> AggregateState("Count", NullD, state.count + 1)
      [] func.name = "sum" /\ func.arg_types[1] = "Int" ->
            LET st == IF is_null(state.value) THEN IntD(0) ELSE state.value
            IN  AggregateState("Sum", IntD(st.i + args[1].i), 0)
      [] func.name = "sum" /\ func.arg_types[1] = "Float" ->
            AccumulateBody_st(args, IF is_null(state.value) THEN FloatD(0, 1) ELSE state.value)
      [] func.name = "avg" /\ func.arg_types[1] = "Int" ->
            AccumulateBody_st2(args, state,
                               IF is_null(state.value) THEN FloatD(0, 1) ELSE state.value)
      [] func.name = "avg" /\ func.arg_types[1] = "Float" ->
            AccumulateBody_st3(args, state,
                               IF is_null(state.value) THEN FloatD(0, 1) ELSE state.value)
      [] func.name = "min" ->
            IF is_null(state.value) THEN AggregateState("MinMax", args[1], 0)
            ELSE IF DatumLess(func.arg_types[1], args[1], state.value)
            THEN AggregateState("MinMax", args[1], 0)
            ELSE state
      [] func.name = "max" ->
            IF is_null(state.value) THEN AggregateState("MinMax", args[1], 0)
            ELSE IF DatumLess(func.arg_types[1], state.value, args[1])
            THEN AggregateState("MinMax", args[1], 0)
            ELSE state

\* AggregateFunctionRegistry::register_skip_null: the wrapper around every body
accumulate(func, args, state) ==
    IF \E i \in 1..Len(args) : is_null(args[i]) THEN state ELSE AccumulateBody(func, args, state)

\* AggregateState::finalize
finalize(state) ==
    CASE state.k = "Count" -> IntD(state.count)
      [] state.k = "Sum" -> state.value
      [] state.k = "Avg" -> IF state.count = 0 THEN NullD ELSE state.value
      [] state.k = "MinMax" -> state.value

\* the loops of type_check_aggregate_function: no cast is inserted
RECURSIVE TryAggregateCandidates(_, _, _)
TryAggregateCandidates(candidates, args, c) ==
    IF c > Len(candidates) THEN Err("CatalogError")
    ELSE IF Len(candidates[c].arg_types) # Len(args)
    THEN TryAggregateCandidates(candidates, args, c + 1)
    ELSE IF \A i \in 1..Len(args) :
                candidates[c].arg_types[i] = "Any" \/ ExprTyp(args[i]) = candidates[c].arg_types[i]
    THEN Ok([func |-> candidates[c], args |-> args])
    ELSE TryAggregateCandidates(candidates, args, c + 1)

type_check_aggregate_function(name, args) ==
    TryAggregateCandidates(aggregate_search_candidates(name), args, 1)

(***************************************************************************)
(* Catalog (catalog/mod.rs, catalog/defs.rs).  An Option is a sequence of  *)
(* no or one element.                                                      *)
(***************************************************************************)
ColumnDefinition(name, data_type, null) == [name |-> name, data_type |-> data_type, null |-> null]

TableDefinition(name, columns) == [name |-> name, columns |-> columns]

SchemaDefinition(name, tables) == [name |-> name, tables |-> tables]

\* Catalog::new
CatalogNew == << SchemaDefinition("default", <<>>) >>

exists_schema(cat, schema_name) == \E i \in 1..Len(cat) : cat[i].name = schema_name

\* Catalog::find_table_by_name: Ok(Some(def)), Ok(None) or the ambiguity error
find_table_by_name(cat, schema_name, table_name) ==
    LET FirstTable(schema) ==
            LET hit(table) == table.name = table_name
                found == SelectSeq(schema.tables, hit)
            IN  IF Len(found) = 0 THEN <<>> ELSE <<found[1]>>
        C[i \in 0..Len(cat)] ==
            IF i = 0 THEN <<>>
            ELSE IF cat[i].name = schema_name THEN C[i - 1] \o FirstTable(cat[i])
            ELSE C[i - 1]
        candidates == C[Len(cat)]
    IN  IF Len(candidates) > 1 THEN Err("CatalogError")
        ELSE IF Len(candidates) = 1 THEN Ok(<<candidates[1]>>)
        ELSE Ok(<<>>)

\* a create_schema that does not look for the name first
create_schema_unchecked(cat, schema_name) ==
    Ok(Append(cat, SchemaDefinition(schema_name, <<>>)))

\* Catalog::create_schema: the new catalog or the error
create_schema(cat, schema_name) ==
    IF exists_schema(cat, schema_name) THEN Err("CatalogError")
    ELSE Ok(Append(cat, SchemaDefinition(schema_name, <<>>)))

\* Catalog::drop_schema
drop_schema(cat, schema_name) ==
    IF ~exists_schema(cat, schema_name) THEN Err("CatalogError")
    ELSE LET keep(schema) == schema.name # schema_name
         IN  Ok(SelectSeq(cat, keep))

\* create_table, given found
create_table_found(cat, schema_name, table_def, found) ==
    IF ~found.ok THEN found
    ELSE IF Len(found.v) > 0 THEN Err("CatalogError")
    ELSE LET first == CHOOSE i \in 1..Len(cat) :
                          cat[i].name = schema_name
                          /\ \A j \in 1..(i - 1) : cat[j].name # schema_name
         IN  Ok([cat EXCEPT ![first].tables = Append(@, table_def)])

\* Catalog::create_table
create_table(cat, schema_name, table_def) ==
    IF ~exists_schema(cat, schema_name) THEN Err("CatalogError")
    ELSE create_table_found(cat, schema_name, table_def,
                            find_table_by_name(cat, schema_name, table_def.name))

\* Catalog::list_tables
list_tables(cat, schema_name) ==
    IF ~exists_schema(cat, schema_name) THEN Err("CatalogError")
    ELSE LET first == CHOOSE i \in 1..Len(cat) :
                          cat[i].name = schema_name
                          /\ \A j \in 1..(i - 1) : cat[j].name # schema_name
         IN  Ok([i \in 1..Len(cat[first].tables) |-> cat[first].tables[i].name])

\* Catalog::drop_table
drop_table(cat, schema_name, table_name) ==
    IF ~exists_schema(cat, schema_name) THEN Err("CatalogError")
    ELSE LET first == CHOOSE i \in 1..Len(cat) :
                          cat[i].name = schema_name
                          /\ \A j \in 1..(i - 1) : cat[j].name # schema_name
             keep(table) == table.name # table_name
         IN  IF ~\E i \in 1..Len(cat[first].tables) : cat[first].tables[i].name = table_name
             THEN Err("CatalogError")
             ELSE Ok([cat EXCEPT ![first].tables = SelectSeq(@, keep)])

(***************************************************************************)
(* Row store (storage/mod.rs, storage/relation.rs).  relations is a        *)
(* function from (schema, table) keys to HeapTable.tuples.                 *)
(***************************************************************************)
\* StorageManager::get_relation / get_relation_mut
get_relation(rels, schema_name, table_name) ==
    IF <<schema_name, table_name>> \in DOMAIN rels
    THEN <<rels[<<schema_name, table_name>>]>>
    ELSE <<>>

\* a create_relation that keeps the relation the name already has
create_relation_kept(rels, schema_name, table_name) ==
    [key \in (DOMAIN rels) \cup {<<schema_name, table_name>>} |->
        IF key \in DOMAIN rels THEN rels[key] ELSE <<>>]

\* a create_relation that creates nothing
create_relation_skipped(rels, schema_name, table_name) == rels

\* StorageManager::create_relation: HashMap::insert of an empty HeapTable
create_relation(rels, schema_name, table_name) ==
    [key \in (DOMAIN rels) \cup {<<schema_name, table_name>>} |->
        IF key = <<schema_name, table_name>> THEN <<>> ELSE rels[key]]

\* StorageManager::drop_relation
drop_relation(rels, schema_name, table_name) ==
    [key \in (DOMAIN rels) \ {<<schema_name, table_name>>} |-> rels[key]]

\* an insert that puts the new tuple in front
HeapInsertFront(tuples, tuple) == <<tuple>> \o tuples

\* HeapTable::insert
HeapInsert(tuples, tuple) == Append(tuples, tuple)

\* a scan that starts over once it has reported the end
HeapScanRewind(tuples, cursor) ==
    IF cursor >= Len(tuples) THEN [tuple |-> <<>>, cursor |-> 0]
    ELSE [tuple |-> <<tuples[cursor + 1]>>, cursor |-> cursor + 1]

\* a scan that moves the cursor on at the end too
HeapScanPast(tuples, cursor) ==
    IF cursor >= Len(tuples) THEN [tuple |-> <<>>, cursor |-> cursor + 1]
    ELSE [tuple |-> <<tuples[cursor + 1]>>, cursor |-> cursor + 1]

\* HeapTable::scan with the caller's ScanState: the tuple, if any, and the new cursor
HeapScan(tuples, cursor) ==
    IF cursor >= Len(tuples) THEN [tuple |-> <<>>, cursor |-> cursor]
    ELSE [tuple |-> <<tuples[cursor + 1]>>, cursor |-> cursor + 1]

\* Tuple::project
TupleProject(tuple, indices) == [i \in 1..Len(indices) |-> tuple[indices[i] + 1]]

(***************************************************************************)
(* The parsed statement (sqlparser::ast), the part of it the binder reads. *)
(* An Expr is a record of one shape, compared structurally.                *)
(***************************************************************************)
AstValue(vk, text) == [vk |-> vk, text |-> text]

NoValue == AstValue("None", <<>>)

AstExpr(k, idents, value, op, args) ==
    [k |-> k, idents |-> idents, value |-> value, op |-> op, args |-> args]

Identifier(name) == AstExpr("Identifier", <<name>>, NoValue, "", <<>>)

CompoundIdentifier(idents) == AstExpr("CompoundIdentifier", idents, NoValue, "", <<>>)

Number(text) == AstExpr("Value", <<>>, AstValue("Number", text), "", <<>>)

SingleQuotedString(text) == AstExpr("Value", <<>>, AstValue("SingleQuotedString", text), "", <<>>)

NullValue == AstExpr("Value", <<>>, AstValue("Null", <<>>), "", <<>>)

BinaryOp(left, op, right) == AstExpr("BinaryOp", <<>>, NoValue, op, <<left, right>>)

\* Expr::Function: name is the ObjectName, args the unnamed arguments
Function(name, args) == AstExpr("Function", name, NoValue, "", args)

\* FunctionArgExpr::Wildcard, the * of count(*)
WildcardArg == AstExpr("Wildcard", <<>>, NoValue, "", <<>>)

NoExpr == AstExpr("None", <<>>, NoValue, "", <<>>)

(***************************************************************************)
(* Scope (sql/planner/scope.rs).                                           *)
(***************************************************************************)
\* Option<QualifiedNamePrefix> with its Option<String> schema_name
QualifiedNamePrefix(schema_name, table_name) ==
    [some |-> TRUE, schema_name |-> schema_name, table_name |-> table_name]

NoPrefix == [some |-> FALSE, schema_name |-> <<>>, table_name |-> ""]

Variable(prefix, name, expr) == [prefix |-> prefix, name |-> name, expr |-> expr]

\* Scope::resolve_column: Ok(Some(index)), Ok(None) or the ambiguity error
resolve_column(scope, ident) ==
    LET match(v) ==
            CASE Len(ident) = 1 -> v.name = ident[1]
              [] Len(ident) = 2 ->
                    v.name = ident[2] /\ v.prefix.some /\ v.prefix.table_name = ident[1]
              [] Len(ident) = 3 ->
                    /\ v.name = ident[3]
                    /\ v.prefix.some
                    /\ v.prefix.table_name = ident[2]
                    /\ v.prefix.schema_name = <<ident[1]>>
              [] OTHER -> FALSE
        candidates == {i \in 1..Len(scope) : match(scope[i])}
    IN  IF candidates = {} THEN Ok(<<>>)
        ELSE IF Cardinality(candidates) = 1 THEN Ok(<<(CHOOSE i \in candidates : TRUE) - 1>>)
        ELSE Err("PlannerError")

\* Scope::resolve_expr: the first variable carrying this expression
resolve_expr(scope, expr) ==
    LET hits == {i \in 1..Len(scope) : scope[i].expr # NoExpr /\ scope[i].expr = expr}
    IN  IF hits = {} THEN <<>>
        ELSE <<ScalarColumn((CHOOSE i \in hits : \A j \in hits : i <= j) - 1)>>

(***************************************************************************)
(* Scalar binding (sql/planner/scalar.rs).                                 *)
(***************************************************************************)
\* impl TryFrom<&ast::Value> for Datum (core/datum.rs)
DatumFromValue(value) ==
    CASE value.vk = "Number" ->
            IF ParseInt(value.text).ok THEN Ok(IntD(ParseInt(value.text).num))
            ELSE Err("ParseError")
      [] value.vk = "SingleQuotedString" -> Ok(StringD(value.text))
      [] value.vk = "Null" -> Ok(NullD)
      [] OTHER -> Err("Panic")

\* bind_literal, given d
bind_literal_d(d) ==
    IF d.ok THEN Ok(ScalarLiteral(d.v)) ELSE d

bind_literal(literal) ==
    bind_literal_d(DatumFromValue(literal))

\* bind_ident, given column
bind_ident_column(column) ==
    IF ~column.ok THEN column
    ELSE IF Len(column.v) = 1 THEN Ok(ScalarColumn(column.v[1]))
    ELSE Err("PlannerError")

bind_ident(scope, qualified_ident) ==
    bind_ident_column(resolve_column(scope, qualified_ident))

BinaryOperatorName(op) ==
    CASE op = "Plus" -> <<"+">>
      [] op = "Minus" -> <<"-">>
      [] op = "Gt" -> <<">">>
      [] op = "Lt" -> <<"<">>
      [] op = "GtEq" -> <<">=">>
      [] op = "LtEq" -> <<"<=">>
      [] op = "Eq" -> <<"=">>
      [] op = "NotEq" -> <<"<>">>
      [] OTHER -> <<>>

\* ObjectName's Display: the parts joined by "."
RECURSIVE ObjectNameToString(_)
ObjectNameToString(idents) ==
    IF Len(idents) = 0 THEN ""
    ELSE IF Len(idents) = 1 THEN idents[1]
    ELSE idents[1] \o "." \o ObjectNameToString(Tail(idents))

\* the arguments of bind_function and of bind_aggregate_function: each must be an
\* unnamed expression
RECURSIVE bind_scalar(_, _)
\* bind_args, given rs
bind_args_rs(rs) ==
    IF AllOk(rs) THEN Ok(Values(rs)) ELSE FirstErr(rs)

bind_args(scope, args) ==
    bind_args_rs([i \in 1..Len(args) |->
                     IF args[i].k = "Wildcard" THEN Err("Panic") ELSE bind_scalar(scope, args[i])])

\* bind_function, given args
bind_function_args(func, args) ==
    IF args.ok THEN Ok(ScalarFunctionCall(ObjectNameToString(func.idents), args.v)) ELSE args

bind_function(scope, func) ==
    bind_function_args(func, bind_args(scope, func.args))

\* bind_binary_op, given r
bind_binary_op_r(func_name, l, r) ==
    IF ~r.ok THEN r
    ELSE Ok(ScalarFunctionCall(func_name[1], <<l.v, r.v>>))

\* bind_binary_op, given l
bind_binary_op_l(scope, right, func_name, l) ==
    IF ~l.ok THEN l
    ELSE bind_binary_op_r(func_name, l, bind_scalar(scope, right))

bind_binary_op(scope, left, op, right) ==
    LET func_name == BinaryOperatorName(op)
    IN  IF Len(func_name) = 0 THEN Err("Panic")
        ELSE bind_binary_op_l(scope, right, func_name, bind_scalar(scope, left))

bind_scalar(scope, expr) ==
    IF Len(resolve_expr(scope, expr)) = 1 THEN Ok(resolve_expr(scope, expr)[1])
    ELSE CASE expr.k = "Identifier" -> bind_ident(scope, expr.idents)
           [] expr.k = "CompoundIdentifier" -> bind_ident(scope, expr.idents)
           [] expr.k = "Value" -> bind_literal(expr.value)
           [] expr.k = "Function" -> bind_function(scope, expr)
           [] expr.k = "BinaryOp" -> bind_binary_op(scope, expr.args[1], expr.op, expr.args[2])
           [] OTHER -> Err("Panic")

\* bind_aggregate_function, given args
bind_aggregate_function_args(func, args) ==
    IF args.ok THEN Ok([name |-> ObjectNameToString(func.idents), args |-> args.v])
    ELSE args

\* bind_aggregate_function: (name, bound arguments)
bind_aggregate_function(scope, func) ==
    IF ObjectNameToString(func.idents) = "count"
    THEN IF Len(func.args) > 1 THEN Err("CatalogError")
         ELSE IF Len(func.args) = 1 /\ func.args[1].k # "Wildcard" THEN Err("Panic")
         ELSE Ok([name |-> "count", args |-> <<>>])
    ELSE bind_aggregate_function_args(func, bind_args(scope, func.args))

\* AggregateFunctionVisitor (sql/planner/aggregate.rs): the aggregate calls of an
\* expression in pre-order
RECURSIVE CollectAggregates(_)
CollectAggregates(expr) ==
    LET here == IF expr.k = "Function" /\ Len(expr.idents) = 1 /\ AggregateContains(expr.idents[1])
                THEN <<expr>> ELSE <<>>
    IN  here \o Concat([i \in 1..Len(expr.args) |-> CollectAggregates(expr.args[i])])

(***************************************************************************)
(* Logical plan (sql/planner/mod.rs) and jobs (sql/runtime/ddl.rs, dml.rs).*)
(***************************************************************************)
PlanGet(schema_name, table_name) ==
    [k |-> "Get", schema_name |-> schema_name, table_name |-> table_name]

PlanMap(scalars, input) == [k |-> "Map", scalars |-> scalars, input |-> input]

PlanProject(projections, input) == [k |-> "Project", projections |-> projections, input |-> input]

PlanFilter(predicate, input) == [k |-> "Filter", predicate |-> predicate, input |-> input]

PlanJoin(left, right) == [k |-> "Join", left |-> left, right |-> right]

PlanAggregate(group_by, aggregates, input) ==
    [k |-> "Aggregate", group_by |-> group_by, aggregates |-> aggregates, input |-> input]

PlanDDL(job) == [k |-> "DDL", job |-> job]

PlanDML(job) == [k |-> "DML", job |-> job]

PlanUse(schema_name) == [k |-> "Use", schema_name |-> schema_name]

PlanExplain(text) == [k |-> "Explain", text |-> text]

Bound(plan, scope) == Ok([plan |-> plan, scope |-> scope])

\* Vec<String>::join
RECURSIVE JoinStrings(_, _)
JoinStrings(strs, sep) ==
    IF Len(strs) = 0 THEN <<>>
    ELSE IF Len(strs) = 1 THEN strs[1]
    ELSE strs[1] \o sep \o JoinStrings(Tail(strs), sep)

\* impl Display for ScalarExpr; a function's name is one element of the text
RECURSIVE ScalarToString(_)
ScalarToString(scalar) ==
    CASE scalar.k = "FunctionCall" ->
            <<scalar.name, "(">>
            \o JoinStrings([i \in 1..Len(scalar.args) |-> ScalarToString(scalar.args[i])],
                           <<",", " ">>)
            \o <<")">>
      [] scalar.k = "Column" -> <<"#">> \o NatToString(scalar.index)
      [] OTHER -> DatumToString(scalar.datum)

DEFAULT_FORMAT_INDENT_SIZE == 4

\* the name indent_format_plan writes for a DDLJob
DDLJobName(job) ==
    CASE job.k = "CreateSchema" -> "CreateSchema"
      [] job.k = "DropSchemas" -> "DropSchema"
      [] job.k = "CreateTable" -> "CreateTable"
      [] job.k = "DropTables" -> "DropTable"
      [] OTHER -> "ShowTables"

\* indent_format_plan (impl Display for Plan): the text as its characters, a word or
\* a name of the plan as one element
RECURSIVE indent_format_plan(_, _)
indent_format_plan(plan, indent) ==
    [i \in 1..indent |-> " "] \o
    CASE plan.k = "Get" -> <<"Get: ", plan.schema_name, ".", plan.table_name>>
      [] plan.k = "Map" ->
            <<"Map: ">>
            \o JoinStrings([i \in 1..Len(plan.scalars) |-> ScalarToString(plan.scalars[i])],
                           <<",", " ">>)
            \o <<"\n">>
            \o indent_format_plan(plan.input, indent + DEFAULT_FORMAT_INDENT_SIZE)
      [] plan.k = "Project" ->
            <<"Project: ">>
            \o JoinStrings([i \in 1..Len(plan.projections) |->
                               <<"#">> \o NatToString(plan.projections[i])],
                           <<",", " ">>)
            \o <<"\n">>
            \o indent_format_plan(plan.input, indent + DEFAULT_FORMAT_INDENT_SIZE)
      [] plan.k = "Filter" ->
            <<"Filter: ">> \o ScalarToString(plan.predicate) \o <<"\n">>
            \o indent_format_plan(plan.input, indent + DEFAULT_FORMAT_INDENT_SIZE)
      [] plan.k = "Join" ->
            <<"Join: ", "\n">>
            \o indent_format_plan(plan.left, indent + DEFAULT_FORMAT_INDENT_SIZE)
            \o <<"\n">>
            \o indent_format_plan(plan.right, indent + DEFAULT_FORMAT_INDENT_SIZE)
      [] plan.k = "DDL" -> <<DDLJobName(plan.job)>>
      [] plan.k = "DML" -> <<"Insert">>
      [] plan.k = "Explain" -> <<"Explain">>
      [] plan.k = "Aggregate" ->
            <<"Aggregate: group_by: ">>
            \o JoinStrings([i \in 1..Len(plan.group_by) |-> ScalarToString(plan.group_by[i])],
                           <<",", " ">>)
            \o <<", aggregates: ">>
            \o JoinStrings([i \in 1..Len(plan.aggregates) |->
                               <<plan.aggregates[i].name, "(">>
                               \o JoinStrings([j \in 1..Len(plan.aggregates[i].args) |->
                                                  ScalarToString(plan.aggregates[i].args[j])],
                                              <<",", " ">>)
                               \o <<")">>],
                           <<",", " ">>)
            \o <<"\n">>
            \o indent_format_plan(plan.input, indent + DEFAULT_FORMAT_INDENT_SIZE)
      [] OTHER -> <<"Use">>

(***************************************************************************)
(* Binder (sql/planner/binder.rs).  cat is ctx.catalog, cur is             *)
(* ctx.current_schema.                                                     *)
(***************************************************************************)
\* impl TryFrom<&DataType> for Type (core/types.rs)
TypeFromDataType(data_type) ==
    CASE data_type \in {"Int", "Integer", "BigInt", "SmallInt", "TinyInt"} -> Ok("Int")
      [] data_type \in {"Varchar", "Char", "String"} -> Ok("String")
      [] data_type = "Boolean" -> Ok("Boolean")
      [] OTHER -> Err("TypeError")

\* a qualify_table_name that takes the schema of a new session for the schema in use
qualify_table_name_default(cur, idents) ==
    IF Len(idents) = 1 THEN <<"default", idents[1]>> ELSE <<idents[1], idents[2]>>

\* Binder::qualify_table_name
qualify_table_name(cur, idents) ==
    IF Len(idents) = 1 THEN <<cur, idents[1]>> ELSE <<idents[1], idents[2]>>

\* Binder::apply_table_alias
apply_table_alias(scope, alias) ==
    [i \in 1..Len(scope) |->
        [scope[i] EXCEPT !.prefix = [some |-> TRUE, schema_name |-> <<>>, table_name |-> alias]]]

\* a select list whose explicit aliases are not kept
expand_select_list_unaliased(from_scope, select_list) ==
    LET Expand(item) ==
            IF item.k = "Wildcard"
            THEN [i \in 1..Len(from_scope) |->
                    LET v == from_scope[i]
                    IN  IF v.prefix.some
                        THEN [expr |-> CompoundIdentifier(
                                          v.prefix.schema_name \o <<v.prefix.table_name>> \o <<v.name>>),
                              alias |-> v.name]
                        ELSE [expr |-> Identifier(v.name), alias |-> v.name]]
            ELSE << [expr |-> item.expr, alias |-> "?column?"] >>
        F[i \in 0..Len(select_list)] ==
            IF i = 0 THEN <<>> ELSE F[i - 1] \o Expand(select_list[i])
    IN  F[Len(select_list)]

\* Binder::expand_select_list: the FlattenedSelectItems
expand_select_list(from_scope, select_list) ==
    LET Expand(item) ==
            IF item.k = "Wildcard"
            THEN [i \in 1..Len(from_scope) |->
                    LET v == from_scope[i]
                    IN  IF v.prefix.some
                        THEN [expr |-> CompoundIdentifier(
                                          v.prefix.schema_name \o <<v.prefix.table_name>> \o <<v.name>>),
                              alias |-> v.name]
                        ELSE [expr |-> Identifier(v.name), alias |-> v.name]]
            ELSE IF item.k = "ExprWithAlias"
            THEN << [expr |-> item.expr, alias |-> item.alias] >>
            ELSE << [expr |-> item.expr, alias |-> "?column?"] >>
        F[i \in 0..Len(select_list)] ==
            IF i = 0 THEN <<>> ELSE F[i - 1] \o Expand(select_list[i])
    IN  F[Len(select_list)]

\* bind_join, given scalar
bind_join_scalar(join_scope, join_plan, scalar) ==
    IF scalar.ok THEN Bound(PlanFilter(scalar.v, join_plan), join_scope)
    ELSE scalar

\* Binder::bind_join
bind_join(join_operator, left, right) ==
    LET join_scope == left.scope \o right.scope
        join_plan == PlanJoin(left.plan, right.plan)
    IN  CASE join_operator.k = "Inner" /\ join_operator.constraint = "On" ->
                bind_join_scalar(join_scope, join_plan, bind_scalar(join_scope, join_operator.expr))
          [] join_operator.k = "Inner" /\ join_operator.constraint = "None" ->
                Bound(join_plan, join_scope)
          [] join_operator.k = "CrossJoin" -> Bound(join_plan, join_scope)
          [] OTHER -> Err("Panic")

\* BindSelectItems, given rs
BindSelectItems_rs(group_scope, flattened_select_list, rs) ==
    LET computed(scalar) == scalar.k # "Column"
    IN  IF ~AllOk(rs) THEN FirstErr(rs)
        ELSE Ok([output_projections |->
                    [i \in 1..Len(rs) |->
                        [index |-> IF rs[i].v.k = "Column" THEN rs[i].v.index
                                   ELSE Len(group_scope),
                         alias |-> flattened_select_list[i].alias]],
                 scalar_maps |-> SelectSeq(Values(rs), computed)])

\* the select-list loop of bind_select_statement: output_projections and scalar_maps
BindSelectItems(group_scope, flattened_select_list) ==
    BindSelectItems_rs(group_scope, flattened_select_list,
                       [i \in 1..Len(flattened_select_list) |->
                           bind_scalar(group_scope, flattened_select_list[i].expr)])

\* BindGroupBy, given aggregates, keys
BindGroupBy_aggregates(from_scope, plan, group_by, aggregate_exprs, aggregate_variables, aggregates, keys) ==
    IF Len(group_by) > 0
    THEN IF ~AllOk(keys) THEN FirstErr(keys)
         ELSE IF ~AllOk(aggregates) THEN FirstErr(aggregates)
         ELSE Bound(PlanAggregate(Values(keys), Values(aggregates), plan),
                    [i \in 1..Len(group_by) |->
                        IF keys[i].v.k = "Column" THEN from_scope[keys[i].v.index + 1]
                        ELSE Variable(NoPrefix, "?column?", group_by[i])]
                    \o aggregate_variables)
    ELSE IF Len(aggregate_exprs) > 0
    THEN IF ~AllOk(aggregates) THEN FirstErr(aggregates)
         ELSE Bound(PlanAggregate(<<>>, Values(aggregates), plan), aggregate_variables)
    ELSE Bound(plan, from_scope)

\* the GROUP BY / scalar aggregate step of bind_select_statement: the plan and group_scope
BindGroupBy(from_scope, plan, group_by, aggregate_exprs) ==
    LET aggregate_variables ==
            [i \in 1..Len(aggregate_exprs) |-> Variable(NoPrefix, "?column?", aggregate_exprs[i])]
    IN  BindGroupBy_aggregates(from_scope, plan, group_by, aggregate_exprs, aggregate_variables,
            [i \in 1..Len(aggregate_exprs) |-> bind_aggregate_function(from_scope, aggregate_exprs[i])],
            [i \in 1..Len(group_by) |-> bind_scalar(from_scope, group_by[i])])

RECURSIVE bind_select_statement(_, _, _)

\* Binder::bind_query
bind_query(cat, cur, query) ==
    IF query.k = "Select" THEN bind_select_statement(cat, cur, query) ELSE Err("Panic")

RECURSIVE bind_table_with_joins(_, _, _)

\* bind_table_ref, given found
bind_table_ref_found(table, schema_name, table_name, found) ==
    IF ~found.ok THEN found
    ELSE IF Len(found.v) = 0 THEN Err("PlannerError")
    ELSE Bound(PlanGet(schema_name, table_name),
               [i \in 1..Len(found.v[1].columns) |->
                   Variable(QualifiedNamePrefix(
                                <<schema_name>>,
                                IF Len(table.alias) = 1 THEN table.alias[1]
                                ELSE table_name),
                            found.v[1].columns[i].name, NoExpr)])

\* bind_table_ref, given b
bind_table_ref_b(table, b) ==
    IF ~b.ok THEN b
    ELSE IF Len(table.alias) = 1
    THEN Bound(b.v.plan, apply_table_alias(b.v.scope, table.alias[1]))
    ELSE b

\* Binder::bind_table_ref
bind_table_ref(cat, cur, table) ==
    CASE table.k = "Table" ->
            IF Len(table.name) > 2 THEN Err("PlannerError")
            ELSE LET schema_name == IF Len(table.name) = 2 THEN table.name[1] ELSE cur
                     table_name == table.name[Len(table.name)]
                 IN  bind_table_ref_found(table, schema_name, table_name,
                                          find_table_by_name(cat, schema_name, table_name))
      [] table.k = "NestedJoin" ->
            bind_table_ref_b(table, bind_table_with_joins(cat, cur, table.table_with_joins))
      [] table.k = "Derived" ->
            bind_table_ref_b(table, bind_query(cat, cur, table.subquery))
      [] OTHER -> Err("Panic")

RECURSIVE FoldJoins(_, _, _, _)

\* FoldJoins, given right
FoldJoins_right(table_with_joins, n, left, right) ==
    IF ~right.ok THEN right
    ELSE bind_join(table_with_joins.joins[n].join_operator, left.v, right.v)

\* FoldJoins, given left
FoldJoins_left(cat, cur, table_with_joins, n, left) ==
    IF ~left.ok THEN left
    ELSE FoldJoins_right(table_with_joins, n, left,
                         bind_table_ref(cat, cur, table_with_joins.joins[n].relation))

\* Binder::bind_table_with_joins: the try_fold over the joins
FoldJoins(cat, cur, table_with_joins, n) ==
    IF n = 0 THEN bind_table_ref(cat, cur, table_with_joins.relation)
    ELSE FoldJoins_left(cat, cur, table_with_joins, n, FoldJoins(cat, cur, table_with_joins, n - 1))

bind_table_with_joins(cat, cur, table_with_joins) ==
    FoldJoins(cat, cur, table_with_joins, Len(table_with_joins.joins))

\* bind_select_statement, given items
bind_select_statement_items(having, items) ==
    IF ~items.ok THEN items
    ELSE
    LET mapped == IF Len(items.v.scalar_maps) > 0 THEN PlanMap(items.v.scalar_maps, having.v)
                  ELSE having.v
        output_projections == items.v.output_projections
    IN  Bound(PlanProject([i \in 1..Len(output_projections) |-> output_projections[i].index],
                          mapped),
              [i \in 1..Len(output_projections) |->
                  Variable(NoPrefix, output_projections[i].alias, NoExpr)])

\* bind_select_statement, given having
bind_select_statement_having(flattened_select_list, group_scope, having) ==
    IF ~having.ok THEN having
    ELSE
    bind_select_statement_items(having, BindSelectItems(group_scope, flattened_select_list))

\* bind_select_statement, given scalar
bind_select_statement_scalar(grouped, scalar) ==
    IF scalar.ok THEN Ok(PlanFilter(scalar.v, grouped.v.plan)) ELSE scalar

\* bind_select_statement, given grouped
bind_select_statement_grouped(select_stmt, flattened_select_list, grouped) ==
    IF ~grouped.ok THEN grouped
    ELSE
    LET group_scope == grouped.v.scope
    IN  bind_select_statement_having(flattened_select_list, group_scope,
            IF Len(select_stmt.having) = 0 THEN Ok(grouped.v.plan)
            ELSE bind_select_statement_scalar(grouped,
                                              bind_scalar(group_scope, select_stmt.having[1])))

\* bind_select_statement, given flattened_select_list, aggregate_exprs
bind_select_statement_flattened_select_list(select_stmt, from_scope, selection, flattened_select_list, aggregate_exprs) ==
    bind_select_statement_grouped(select_stmt, flattened_select_list,
        BindGroupBy(from_scope, selection.v, select_stmt.group_by, aggregate_exprs))

\* bind_select_statement, given selection
bind_select_statement_selection(select_stmt, from_scope, selection) ==
    IF ~selection.ok THEN selection
    ELSE
    bind_select_statement_flattened_select_list(select_stmt, from_scope, selection,
        expand_select_list(from_scope, select_stmt.projection),
        Concat([i \in 1..Len(select_stmt.projection) |->
                   IF select_stmt.projection[i].k = "Wildcard" THEN <<>>
                   ELSE CollectAggregates(select_stmt.projection[i].expr)])
        \o (IF Len(select_stmt.having) = 1 THEN CollectAggregates(select_stmt.having[1])
            ELSE <<>>))

\* bind_select_statement, given scalar
bind_select_statement_scalar2(from_plan, scalar) ==
    IF scalar.ok THEN Ok(PlanFilter(scalar.v, from_plan)) ELSE scalar

\* bind_select_statement, given table_factors
bind_select_statement_table_factors(select_stmt, table_factors) ==
    IF ~AllOk(table_factors) THEN FirstErr(table_factors)
    ELSE
    LET Reduce[i \in 1..Len(table_factors)] ==
            IF i = 1 THEN table_factors[1].v
            ELSE [plan |-> PlanJoin(Reduce[i - 1].plan, table_factors[i].v.plan),
                  scope |-> Reduce[i - 1].scope \o table_factors[i].v.scope]
        from_plan == Reduce[Len(table_factors)].plan
        from_scope == Reduce[Len(table_factors)].scope
    IN  bind_select_statement_selection(select_stmt, from_scope,
            IF Len(select_stmt.selection) = 0 THEN Ok(from_plan)
            ELSE bind_select_statement_scalar2(from_plan,
                                               bind_scalar(from_scope, select_stmt.selection[1])))

\* Binder::bind_select_statement
bind_select_statement(cat, cur, select_stmt) ==
    IF Len(select_stmt.from) = 0 THEN Bound(PlanGet("system", "dual"), <<>>)
    ELSE
    bind_select_statement_table_factors(select_stmt,
                                        [i \in 1..Len(select_stmt.from) |->
                                            bind_table_with_joins(cat, cur, select_stmt.from[i])])

\* BindInsertRow, given rs
BindInsertRow_rs(rs) ==
    IF AllOk(rs) THEN Ok(Values(rs)) ELSE FirstErr(rs)

\* BindInsertRow, given scalar
BindInsertRow_scalar(columns, i, scalar) ==
    IF ~scalar.ok THEN scalar
    ELSE IF scalar.v.k = "Literal"
    THEN Ok(cast(scalar.v.datum, columns[i].data_type))
    ELSE Err("PlannerError")

\* the rows loop of bind_insert: one row bound against the table's columns
BindInsertRow(row, columns) ==
    IF Len(row) # Len(columns) THEN Err("PlannerError")
    ELSE BindInsertRow_rs([i \in 1..Len(row) |->
                              BindInsertRow_scalar(columns, i, bind_scalar(<<>>, row[i]))])

\* bind_insert, given rows
bind_insert_rows(name, rows) ==
    IF ~AllOk(rows) THEN FirstErr(rows)
    ELSE Ok(PlanDML([k |-> "Insert", schema_name |-> name[1],
                     table_name |-> name[2], insert_data |-> Values(rows)]))

\* bind_insert, given found
bind_insert_found(source, name, found) ==
    IF ~found.ok THEN found
    ELSE IF Len(found.v) = 0 THEN Err("CatalogError")
    ELSE IF source.k # "Values" THEN Err("Panic")
    ELSE bind_insert_rows(name,
                          [i \in 1..Len(source.rows) |->
                              BindInsertRow(source.rows[i], found.v[1].columns)])

\* Binder::bind_insert
bind_insert(cat, cur, table_idents, source) ==
    LET name == qualify_table_name(cur, table_idents)
    IN  bind_insert_found(source, name, find_table_by_name(cat, name[1], name[2]))

\* BindColumns, given rs
BindColumns_rs(rs) ==
    IF AllOk(rs) THEN Ok(Values(rs)) ELSE FirstErr(rs)

\* BindColumns, given data_type
BindColumns_data_type(columns, i, data_type) ==
    IF ~data_type.ok THEN data_type
    ELSE Ok(ColumnDefinition(columns[i].name, data_type.v,
                             "Null" \in columns[i].options))

\* the columns of a CREATE TABLE
BindColumns(columns) ==
    BindColumns_rs([i \in 1..Len(columns) |->
                       BindColumns_data_type(columns, i, TypeFromDataType(columns[i].data_type))])

\* bind_statement, given columns
bind_statement_columns(schema_name, table_name, columns) ==
    IF ~columns.ok THEN columns
    ELSE Bound(PlanDDL([k |-> "CreateTable", schema_name |-> schema_name,
                        table_def |-> TableDefinition(table_name, columns.v)]),
               <<>>)

\* bind_statement, given plan
bind_statement_plan(plan) ==
    IF plan.ok THEN Bound(plan.v, <<>>) ELSE plan

\* an EXPLAIN that binds to the plan of its statement
bind_statement_explained_plan(inner) == inner

\* bind_statement, given the plan of the statement of an EXPLAIN
bind_statement_explained(inner) ==
    IF ~inner.ok THEN inner
    ELSE Bound(PlanExplain(indent_format_plan(inner.v.plan, 0)), <<>>)

RECURSIVE bind_statement(_, _, _)

\* Binder::bind_statement
bind_statement(cat, cur, stmt) ==
    CASE stmt.k = "CreateSchema" ->
            IF stmt.if_not_exists THEN Err("Panic")
            ELSE Bound(PlanDDL([k |-> "CreateSchema", schema_name |-> stmt.schema_name]), <<>>)
      [] stmt.k = "CreateTable" ->
            IF stmt.if_not_exists THEN Err("Panic")
            ELSE IF Len(stmt.name) \notin {1, 2} THEN Err("PlannerError")
            ELSE LET schema_name == IF Len(stmt.name) = 1 THEN cur ELSE stmt.name[1]
                     table_name == stmt.name[Len(stmt.name)]
                 IN  bind_statement_columns(schema_name, table_name, BindColumns(stmt.columns))
      [] stmt.k = "ShowTables" ->
            Bound(PlanDDL([k |-> "ShowTables",
                           schema_name |-> IF Len(stmt.db_name) = 1 THEN stmt.db_name[1] ELSE cur]),
                  <<>>)
      [] stmt.k = "Drop" ->
            IF stmt.if_exists THEN Err("Panic")
            ELSE IF Len(stmt.names) = 0 \/ Len(stmt.names) > 2 THEN Err("PlannerError")
            ELSE IF stmt.object_type = "Table"
            THEN Bound(PlanDDL([k |-> "DropTables",
                                names |-> [i \in 1..Len(stmt.names) |->
                                              qualify_table_name(cur, stmt.names[i])]]),
                       <<>>)
            ELSE IF stmt.object_type = "Schema"
            THEN Bound(PlanDDL([k |-> "DropSchemas",
                                names |-> [i \in 1..Len(stmt.names) |-> stmt.names[i][1]]]),
                       <<>>)
            ELSE Err("Panic")
      [] stmt.k = "Query" -> bind_query(cat, cur, stmt.query)
      [] stmt.k = "Insert" ->
            bind_statement_plan(bind_insert(cat, cur, stmt.table_name, stmt.source))
      [] stmt.k = "Explain" ->
            bind_statement_explained(bind_statement(cat, cur, stmt.statement))
      [] stmt.k = "Use" -> Bound(PlanUse(stmt.db_name), <<>>)
      [] OTHER -> Err("Panic")

(***************************************************************************)
(* Executors (sql/runtime/executor.rs).  An executor is a record of its    *)
(* fields; a closure is the expressions it captured.  ctx is the           *)
(* QueryContext [catalog, relations, current_schema].                      *)
(***************************************************************************)
QueryContext(cat, rels, cur) == [catalog |-> cat, relations |-> rels, current_schema |-> cur]

\* ScanExecutor::new
ScanExecutor(schema_name, table_name) ==
    [k |-> "Scan", schema_name |-> schema_name, table_name |-> table_name, cursor |-> 0]

\* ProjectExecutor::new
ProjectExecutor(child, projections) ==
    [k |-> "Project", child |-> child, projections |-> projections]

\* FilterExecutor::new, the predicate being the expression predicate_fn captured
FilterExecutor(child, predicate) == [k |-> "Filter", child |-> child, predicate |-> predicate]

\* MapExecutor::new, the expressions being the ones map_fn captured
MapExecutor(child, expressions) == [k |-> "Map", child |-> child, expressions |-> expressions]

\* NestedLoopJoinExecutor::new
NestedLoopJoinExecutor(inner_table, outer_table) ==
    [k |-> "NestedLoopJoin", inner_table |-> inner_table, outer_table |-> outer_table,
     state |-> <<>>]

\* struct NestedLoopJoinState
NestedLoopJoinState(inner_tuples, inner_tuple_idx, outer_tuple) ==
    [inner_tuples |-> inner_tuples, inner_tuple_idx |-> inner_tuple_idx,
     outer_tuple |-> outer_tuple]

\* HashAggregateExecutor::new.  hash_table lists the entries in insertion order and
\* iter_order is the order in which HashMap::iter will visit them.
HashAggregateExecutor(input, group_by, aggregates, iter_order) ==
    [k |-> "HashAggregate", input_executor |-> input, group_by |-> group_by,
     aggregates |-> aggregates, hash_table |-> <<>>, single_group |-> <<>>,
     result_tuples |-> <<>>, iter_order |-> iter_order]

\* DDLExecutor::new
DDLExecutor(job) == [k |-> "DDL", job |-> job, result_buffer |-> <<>>]

\* DMLExecutor::new
DMLExecutor(job) == [k |-> "DML", job |-> job, result_buffer |-> <<>>]

\* Executor::Use
UseExecutor(schema_name) == [k |-> "Use", schema_name |-> schema_name]

\* ValuesExecutor::new
ValuesExecutor(values) == [k |-> "Values", values |-> values]

\* predicate_fn_null_true, given casted
predicate_fn_null_true_casted(casted) ==
    IF casted.t = "Boolean" THEN casted.i = 1 ELSE TRUE

\* predicate_fn_null_true, given evaluated
predicate_fn_null_true_evaluated(evaluated) ==
    LET result == IF evaluated.ok THEN evaluated.v ELSE BooleanD(FALSE)
    IN  IF result.t = "Boolean" THEN result.i = 1
        ELSE predicate_fn_null_true_casted(cast(result, "Boolean"))

\* a predicate under which a Null result keeps the row
predicate_fn_null_true(predicate, input) ==
    predicate_fn_null_true_evaluated(ExprEval(predicate, input))

\* predicate_fn, given casted
predicate_fn_casted(casted) ==
    IF casted.t = "Boolean" THEN casted.i = 1 ELSE FALSE

\* predicate_fn, given evaluated
predicate_fn_evaluated(evaluated) ==
    LET result == IF evaluated.ok THEN evaluated.v ELSE BooleanD(FALSE)
    IN  IF result.t = "Boolean" THEN result.i = 1
        ELSE predicate_fn_casted(cast(result, "Boolean"))

\* the predicate_fn closure of ExecutorBuilder::build_inner
predicate_fn(predicate, input) ==
    predicate_fn_evaluated(ExprEval(predicate, input))

\* map_fn, given evaluated
map_fn_evaluated(evaluated) ==
    IF evaluated.ok THEN evaluated.v ELSE NullD

\* the map_fn closure of ExecutorBuilder::build_inner
map_fn(expressions, input) ==
    input \o [i \in 1..Len(expressions) |->
                 map_fn_evaluated(ExprEval(expressions[i], input))]

\* the inner tuple first
combine_tuple_swapped(left_tuple, right_tuple) == right_tuple \o left_tuple

\* NestedLoopJoinExecutor::combine_tuple
combine_tuple(left_tuple, right_tuple) == left_tuple \o right_tuple

\* Ok(Some(tuple)) or Ok(None) of next, with the executor as next left it
Pulled(tuple, exec) == Ok([tuple |-> tuple, exec |-> exec])

\* the states a group starts from
DefaultStates(aggregates) == [i \in 1..Len(aggregates) |-> aggregates[i].func.default_state]

\* HashMap::entry(hash_key): the position of the key in hash_table, 0 if vacant
EntryOf(hash_table, hash_key) ==
    LET same(i) == /\ Len(hash_table[i].key) = Len(hash_key)
                   /\ \A j \in 1..Len(hash_key) : DatumEq(hash_table[i].key[j], hash_key[j])
    IN  IF \E i \in 1..Len(hash_table) : same(i)
        THEN CHOOSE i \in 1..Len(hash_table) : same(i)
        ELSE 0

\* every aggregate's state after it has taken its arguments
Accumulated(aggregates, arg_values, states) ==
    [i \in 1..Len(aggregates) |-> accumulate(aggregates[i].func, arg_values[i].v, states[i])]

\* AggregateTuple, given at
AggregateTuple_at(exec, hash_key, arg_values, at) ==
    IF at = 0
    THEN Ok([exec EXCEPT !.hash_table =
                 Append(@, [key |-> Values(hash_key),
                            states |-> Accumulated(exec.aggregates, arg_values,
                                                    DefaultStates(exec.aggregates))])])
    ELSE Ok([exec EXCEPT !.hash_table[at].states = Accumulated(exec.aggregates, arg_values, @)])

\* AggregateTuple, given hash_key, arg_values
AggregateTuple_hash_key(exec, hash_key, arg_values) ==
    IF ~AllOk(hash_key) THEN FirstErr(hash_key)
    ELSE IF ~AllOk(arg_values) THEN FirstErr(arg_values)
    ELSE IF Len(exec.group_by) = 0
    THEN LET states == IF Len(exec.single_group) = 0 THEN DefaultStates(exec.aggregates)
                       ELSE exec.single_group[1]
         IN  Ok([exec EXCEPT !.single_group = <<Accumulated(exec.aggregates, arg_values, states)>>])
    ELSE AggregateTuple_at(exec, hash_key, arg_values, EntryOf(exec.hash_table, Values(hash_key)))

\* AggregateTuple, given rs
AggregateTuple_rs(rs) ==
    IF AllOk(rs) THEN Ok(Values(rs)) ELSE FirstErr(rs)

\* the body of the draining loop of HashAggregateExecutor::next for one input tuple
AggregateTuple(exec, tuple) ==
    AggregateTuple_hash_key(exec,
                            [i \in 1..Len(exec.group_by) |-> ExprEval(exec.group_by[i], tuple)],
                            [i \in 1..Len(exec.aggregates) |->
                                AggregateTuple_rs([j \in 1..Len(exec.aggregates[i].args) |->
                                                      ExprEval(exec.aggregates[i].args[j], tuple)])])

\* result tuples without the default states of an aggregation that saw no row
ResultTuplesNoDefault(exec) ==
    IF Len(exec.group_by) = 0
    THEN IF Len(exec.single_group) = 0 THEN <<>>
         ELSE << [i \in 1..Len(exec.single_group[1]) |-> finalize(exec.single_group[1][i])] >>
    ELSE LET n == Len(exec.hash_table)
             rank(i) == Cardinality({j \in 1..n : exec.iter_order[j] < exec.iter_order[i]})
             visited == [p \in 1..n |-> CHOOSE i \in 1..n : rank(i) = p - 1]
         IN  [p \in 1..n |->
                 exec.hash_table[visited[p]].key
                 \o [i \in 1..Len(exec.aggregates) |->
                        finalize(exec.hash_table[visited[p]].states[i])]]

\* the result tuples of HashAggregateExecutor::next, in HashMap::iter order for groups
ResultTuples(exec) ==
    IF Len(exec.group_by) = 0
    THEN LET states == IF Len(exec.single_group) = 0 THEN DefaultStates(exec.aggregates)
                       ELSE exec.single_group[1]
         IN  << [i \in 1..Len(states) |-> finalize(states[i])] >>
    ELSE LET n == Len(exec.hash_table)
             rank(i) == Cardinality({j \in 1..n : exec.iter_order[j] < exec.iter_order[i]})
             visited == [p \in 1..n |-> CHOOSE i \in 1..n : rank(i) = p - 1]
         IN  [p \in 1..n |->
                 exec.hash_table[visited[p]].key
                 \o [i \in 1..Len(exec.aggregates) |->
                        finalize(exec.hash_table[visited[p]].states[i])]]

RECURSIVE ExecNext(_, _)

RECURSIVE FilterNext(_, _)

\* FilterNext, given pulled
FilterNext_pulled(exec, ctx, pulled) ==
    IF ~pulled.ok THEN pulled
    ELSE LET filter_exec == [exec EXCEPT !.child = pulled.v.exec]
         IN  IF Len(pulled.v.tuple) = 0 THEN Pulled(<<>>, filter_exec)
             ELSE IF predicate_fn(exec.predicate, pulled.v.tuple[1])
             THEN Pulled(pulled.v.tuple, filter_exec)
             ELSE FilterNext(filter_exec, ctx)

\* FilterExecutor::next
FilterNext(exec, ctx) ==
    FilterNext_pulled(exec, ctx, ExecNext(exec.child, ctx))

RECURSIVE DrainInner(_, _, _)

\* DrainInner, given pulled
DrainInner_pulled(ctx, inner_tuples, pulled) ==
    IF ~pulled.ok THEN pulled
    ELSE IF Len(pulled.v.tuple) = 0
    THEN Ok([exec |-> pulled.v.exec, inner_tuples |-> inner_tuples])
    ELSE DrainInner(pulled.v.exec, ctx, Append(inner_tuples, pulled.v.tuple[1]))

\* the draining loop of NestedLoopJoinExecutor::open, inner being the opened inner table
DrainInner(inner, ctx, inner_tuples) ==
    DrainInner_pulled(ctx, inner_tuples, ExecNext(inner, ctx))

RECURSIVE NestedLoopJoinNext(_, _)

\* NestedLoopJoinNext, given pulled
NestedLoopJoinNext_pulled(exec, ctx, state, pulled) ==
    IF ~pulled.ok THEN pulled
    ELSE
    LET probed == [exec EXCEPT !.outer_table = pulled.v.exec,
                               !.state = <<[state EXCEPT !.outer_tuple = pulled.v.tuple]>>]
    IN  IF Len(pulled.v.tuple) = 0 THEN Pulled(<<>>, probed)
        ELSE IF state.inner_tuple_idx = Len(state.inner_tuples)
        THEN NestedLoopJoinNext(
                 [probed EXCEPT !.state =
                     <<NestedLoopJoinState(state.inner_tuples, 0, <<>>)>>], ctx)
        ELSE Pulled(
                 <<combine_tuple(pulled.v.tuple[1],
                                 state.inner_tuples[state.inner_tuple_idx + 1])>>,
                 [probed EXCEPT !.state =
                     <<NestedLoopJoinState(state.inner_tuples,
                                           state.inner_tuple_idx + 1,
                                           pulled.v.tuple)>>])

\* NestedLoopJoinExecutor::next
NestedLoopJoinNext(exec, ctx) ==
    IF Len(exec.state) = 0 THEN Err("Panic")
    ELSE LET state == exec.state[1]
         IN  IF Len(state.inner_tuples) = 0 THEN Pulled(<<>>, exec)
             ELSE
             NestedLoopJoinNext_pulled(exec, ctx, state,
                 IF Len(state.outer_tuple) = 0 THEN ExecNext(exec.outer_table, ctx)
                 ELSE Pulled(state.outer_tuple, exec.outer_table))

RECURSIVE DrainInput(_, _)

\* DrainInput, given aggregated
DrainInput_aggregated(ctx, aggregated) ==
    IF ~aggregated.ok THEN aggregated ELSE DrainInput(aggregated.v, ctx)

\* DrainInput, given pulled
DrainInput_pulled(exec, ctx, pulled) ==
    IF ~pulled.ok THEN pulled
    ELSE IF Len(pulled.v.tuple) = 0 THEN Ok([exec EXCEPT !.input_executor = pulled.v.exec])
    ELSE DrainInput_aggregated(ctx,
                               AggregateTuple([exec EXCEPT !.input_executor = pulled.v.exec],
                                              pulled.v.tuple[1]))

\* the draining loop of HashAggregateExecutor::next
DrainInput(exec, ctx) ==
    DrainInput_pulled(exec, ctx, ExecNext(exec.input_executor, ctx))

\* HashAggregateNext, given result_tuples
HashAggregateNext_result_tuples(drained, result_tuples) ==
    IF Len(result_tuples) = 0
    THEN Pulled(<<>>, [drained.v EXCEPT !.result_tuples = <<result_tuples>>])
    ELSE Pulled(<<Head(result_tuples)>>,
                [drained.v EXCEPT !.result_tuples = <<Tail(result_tuples)>>])

\* HashAggregateNext, given drained
HashAggregateNext_drained(drained) ==
    IF ~drained.ok THEN drained
    ELSE HashAggregateNext_result_tuples(drained,
             IF Len(drained.v.result_tuples) = 0 THEN ResultTuples(drained.v)
             ELSE drained.v.result_tuples[1])

\* HashAggregateExecutor::next
HashAggregateNext(exec, ctx) ==
    HashAggregateNext_drained(DrainInput(exec, ctx))

\* ExecNext, given pulled
ExecNext_pulled(exec, pulled) ==
    IF ~pulled.ok THEN pulled
    ELSE Pulled([i \in 1..Len(pulled.v.tuple) |->
                    map_fn(exec.expressions, pulled.v.tuple[i])],
                [exec EXCEPT !.child = pulled.v.exec])

\* ExecNext, given pulled
ExecNext_pulled2(exec, pulled) ==
    IF ~pulled.ok THEN pulled
    ELSE IF /\ Len(pulled.v.tuple) = 1
            /\ \E i \in 1..Len(exec.projections) :
                  exec.projections[i] >= Len(pulled.v.tuple[1])
    THEN Err("Panic")
    ELSE Pulled([i \in 1..Len(pulled.v.tuple) |->
                    TupleProject(pulled.v.tuple[i], exec.projections)],
                [exec EXCEPT !.child = pulled.v.exec])

\* Executor::next
ExecNext(exec, ctx) ==
    CASE exec.k = "Filter" -> FilterNext(exec, ctx)
      [] exec.k = "Map" ->
            ExecNext_pulled(exec, ExecNext(exec.child, ctx))
      [] exec.k = "Project" ->
            ExecNext_pulled2(exec, ExecNext(exec.child, ctx))
      [] exec.k = "Scan" ->
            LET table == get_relation(ctx.relations, exec.schema_name, exec.table_name)
            IN  IF Len(table) = 0 THEN Err("UnknownError")
                ELSE Pulled(HeapScan(table[1], exec.cursor).tuple,
                            [exec EXCEPT !.cursor = HeapScan(table[1], exec.cursor).cursor])
      [] exec.k = "DDL" ->
            IF Len(exec.result_buffer) = 0 THEN Pulled(<<>>, exec)
            ELSE Pulled(<<Head(exec.result_buffer)>>, [exec EXCEPT !.result_buffer = Tail(@)])
      [] exec.k = "NestedLoopJoin" -> NestedLoopJoinNext(exec, ctx)
      [] exec.k = "HashAggregate" -> HashAggregateNext(exec, ctx)
      [] exec.k = "Values" ->
            IF Len(exec.values) = 0 THEN Pulled(<<>>, exec)
            ELSE Pulled(<<Head(exec.values)>>, [exec EXCEPT !.values = Tail(@)])
      [] OTHER -> Pulled(<<>>, exec)

\* the outcome of open: the executor and the context as open left them, also on error
Opened(exec, ctx) == [ok |-> TRUE, err |-> "None", exec |-> exec, ctx |-> ctx]

OpenFailed(kind, exec, ctx) == [ok |-> FALSE, err |-> kind, exec |-> exec, ctx |-> ctx]

\* a name as the characters of a Datum::String
Spell(name) ==
    CASE name = "default" -> <<"d", "e", "f", "a", "u", "l", "t">>
      [] name = "system" -> <<"s", "y", "s", "t", "e", "m">>
      [] OTHER -> <<name>>

RECURSIVE DropSchemas(_, _, _)

\* DropSchemas, given dropped
DropSchemas_dropped(exec, ctx, names, dropped) ==
    IF ~dropped.ok THEN OpenFailed(dropped.err, exec, ctx)
    ELSE DropSchemas(exec, [ctx EXCEPT !.catalog = dropped.v], Tail(names))

\* the loop of DDLJob::DropSchemas in DDLExecutor::open
DropSchemas(exec, ctx, names) ==
    IF Len(names) = 0 THEN Opened(exec, ctx)
    ELSE DropSchemas_dropped(exec, ctx, names, drop_schema(ctx.catalog, Head(names)))

RECURSIVE DropTables(_, _, _)

\* DropTables, given dropped
DropTables_dropped(exec, ctx, names, dropped) ==
    IF ~dropped.ok THEN OpenFailed(dropped.err, exec, ctx)
    ELSE DropTables(exec,
                    [ctx EXCEPT !.catalog = dropped.v,
                                !.relations = drop_relation(@, Head(names)[1],
                                                            Head(names)[2])],
                    Tail(names))

\* a loop that looks for every table before it drops the first
DropTablesChecked(exec, ctx, names) ==
    IF Len(names) = 0 THEN Opened(exec, ctx)
    ELSE IF \E i \in 1..Len(names) : ~drop_table(ctx.catalog, names[i][1], names[i][2]).ok
    THEN OpenFailed("CatalogError", exec, ctx)
    ELSE DropTables_dropped(exec, ctx, names,
                            drop_table(ctx.catalog, Head(names)[1], Head(names)[2]))

\* the loop of DDLJob::DropTables in DDLExecutor::open
DropTables(exec, ctx, names) ==
    IF Len(names) = 0 THEN Opened(exec, ctx)
    ELSE DropTables_dropped(exec, ctx, names,
                            drop_table(ctx.catalog, Head(names)[1], Head(names)[2]))

\* DDLOpen, given created
DDLOpen_created(exec, ctx, created) ==
    IF ~created.ok THEN OpenFailed(created.err, exec, ctx)
    ELSE Opened(exec, [ctx EXCEPT !.catalog = created.v])

\* DDLOpen, given created
DDLOpen_created2(exec, ctx, created) ==
    IF ~created.ok THEN OpenFailed(created.err, exec, ctx)
    ELSE Opened(exec,
                [ctx EXCEPT !.catalog = created.v,
                            !.relations = create_relation(@, exec.job.schema_name,
                                                          exec.job.table_def.name)])

\* DDLOpen, given tables
DDLOpen_tables(exec, ctx, tables) ==
    IF ~tables.ok THEN OpenFailed(tables.err, exec, ctx)
    ELSE Opened([exec EXCEPT !.result_buffer =
                    @ \o [i \in 1..Len(tables.v) |-> <<StringD(Spell(tables.v[i]))>>]],
                ctx)

\* DDLExecutor::open
DDLOpen(exec, ctx) ==
    CASE exec.job.k = "CreateSchema" ->
            DDLOpen_created(exec, ctx, create_schema(ctx.catalog, exec.job.schema_name))
      [] exec.job.k = "DropSchemas" -> DropSchemas(exec, ctx, exec.job.names)
      [] exec.job.k = "CreateTable" ->
            DDLOpen_created2(exec, ctx,
                             create_table(ctx.catalog, exec.job.schema_name, exec.job.table_def))
      [] exec.job.k = "DropTables" -> DropTables(exec, ctx, exec.job.names)
      [] exec.job.k = "ShowTables" ->
            DDLOpen_tables(exec, ctx, list_tables(ctx.catalog, exec.job.schema_name))

\* an insert loop that stops after the first tuple
InsertAllFirst(tuples, insert_data) ==
    IF Len(insert_data) = 0 THEN tuples ELSE HeapInsert(tuples, Head(insert_data))

\* the loop of DMLJob::Insert in DMLExecutor::open
RECURSIVE InsertAll(_, _)
InsertAll(tuples, insert_data) ==
    IF Len(insert_data) = 0 THEN tuples
    ELSE InsertAll(HeapInsert(tuples, Head(insert_data)), Tail(insert_data))

\* DMLExecutor::open
DMLOpen(exec, ctx) ==
    LET table == get_relation(ctx.relations, exec.job.schema_name, exec.job.table_name)
    IN  IF Len(table) = 0 THEN OpenFailed("UnknownError", exec, ctx)
        ELSE Opened(exec,
                    [ctx EXCEPT !.relations[<<exec.job.schema_name, exec.job.table_name>>] =
                        InsertAll(@, exec.job.insert_data)])

RECURSIVE ExecOpen(_, _)

\* ExecOpen, given drained
ExecOpen_drained(exec, outer, drained) ==
    IF ~drained.ok THEN OpenFailed(drained.err, exec, outer.ctx)
    ELSE Opened([exec EXCEPT
                    !.inner_table = drained.v.exec,
                    !.outer_table = outer.exec,
                    !.state = <<NestedLoopJoinState(drained.v.inner_tuples,
                                                    0, <<>>)>>],
                outer.ctx)

\* ExecOpen, given outer
ExecOpen_outer(exec, inner, outer) ==
    IF ~outer.ok THEN outer
    ELSE
    ExecOpen_drained(exec, outer, DrainInner(inner.exec, outer.ctx, <<>>))

\* ExecOpen, given inner
ExecOpen_inner(exec, inner) ==
    IF ~inner.ok THEN inner
    ELSE
    ExecOpen_outer(exec, inner, ExecOpen(exec.outer_table, inner.ctx))

\* ExecOpen, given child
ExecOpen_child(exec, child) ==
    IF ~child.ok THEN child ELSE Opened([exec EXCEPT !.child = child.exec], child.ctx)

\* ExecOpen, given child
ExecOpen_child2(exec, child) ==
    IF ~child.ok THEN child
    ELSE Opened([exec EXCEPT !.input_executor = child.exec], child.ctx)

\* Executor::open
ExecOpen(exec, ctx) ==
    CASE exec.k = "DDL" -> DDLOpen(exec, ctx)
      [] exec.k = "DML" -> DMLOpen(exec, ctx)
      [] exec.k = "NestedLoopJoin" ->
            ExecOpen_inner(exec, ExecOpen(exec.inner_table, ctx))
      [] exec.k = "Use" -> Opened(exec, [ctx EXCEPT !.current_schema = exec.schema_name])
      [] exec.k \in {"Project", "Filter", "Map"} ->
            ExecOpen_child(exec, ExecOpen(exec.child, ctx))
      [] exec.k = "HashAggregate" ->
            ExecOpen_child2(exec, ExecOpen(exec.input_executor, ctx))
      [] OTHER -> Opened(exec, ctx)

\* Executor::children_mut
children_mut(exec) ==
    CASE exec.k \in {"Project", "Filter", "Map"} -> <<exec.child>>
      [] exec.k = "NestedLoopJoin" -> <<exec.outer_table, exec.inner_table>>
      [] exec.k = "HashAggregate" -> <<exec.input_executor>>
      [] OTHER -> <<>>

\* Executor::close: the executors it visits, itself first; it changes nothing
RECURSIVE ExecClose(_)
ExecClose(exec) ==
    <<exec.k>> \o Concat([i \in 1..Len(children_mut(exec)) |-> ExecClose(children_mut(exec)[i])])

(***************************************************************************)
(* Executor builder (sql/runtime/builder.rs).  A Schema is its             *)
(* column_types.                                                           *)
(***************************************************************************)
Built(exec, schema) == Ok([exec |-> exec, schema |-> schema])

\* TypeCheckAll, given rs
TypeCheckAll_rs(rs) ==
    IF AllOk(rs) THEN Ok(Values(rs)) ELSE FirstErr(rs)

\* the loop type-checking a list of scalars against a schema
TypeCheckAll(schema, scalars) ==
    TypeCheckAll_rs([i \in 1..Len(scalars) |-> type_check(schema, scalars[i])])

RECURSIVE build_inner(_, _, _)

\* build_inner, given input
build_inner_input(plan, input) ==
    IF ~input.ok THEN input
    ELSE IF \E i \in 1..Len(plan.projections) :
                plan.projections[i] >= Len(input.v.schema)
    THEN Err("Panic")
    ELSE Built(ProjectExecutor(input.v.exec, plan.projections),
               [i \in 1..Len(plan.projections) |->
                   input.v.schema[plan.projections[i] + 1]])

\* build_inner, given found
build_inner_found(plan, found) ==
    IF ~found.ok THEN found
    ELSE IF Len(found.v) = 0 THEN Err("UnknownError")
    ELSE Built(ScanExecutor(plan.schema_name, plan.table_name),
               [i \in 1..Len(found.v[1].columns) |-> found.v[1].columns[i].data_type])

\* build_inner, given predicate
build_inner_predicate(input, predicate) ==
    IF ~predicate.ok THEN predicate
    ELSE Built(FilterExecutor(input.v.exec, predicate.v), input.v.schema)

\* build_inner, given input
build_inner_input2(plan, input) ==
    IF ~input.ok THEN input
    ELSE build_inner_predicate(input, type_check(input.v.schema, plan.predicate))

\* build_inner, given expressions
build_inner_expressions(input, expressions) ==
    IF ~expressions.ok THEN expressions
    ELSE Built(MapExecutor(input.v.exec, expressions.v),
               input.v.schema
               \o [i \in 1..Len(expressions.v) |-> ExprTyp(expressions.v[i])])

\* build_inner, given input
build_inner_input3(plan, input) ==
    IF ~input.ok THEN input
    ELSE build_inner_expressions(input, TypeCheckAll(input.v.schema, plan.scalars))

\* build_inner, given right
build_inner_right(left, right) ==
    IF ~right.ok THEN right
    ELSE Built(NestedLoopJoinExecutor(right.v.exec, left.v.exec),
               left.v.schema \o right.v.schema)

\* build_inner, given left
build_inner_left(ctx, plan, iter_order, left) ==
    IF ~left.ok THEN left
    ELSE build_inner_right(left, build_inner(ctx, plan.right, iter_order))

\* build_inner, given group_by, aggregates
build_inner_group_by(iter_order, input, group_by, aggregates) ==
    IF ~group_by.ok THEN group_by
    ELSE IF ~AllOk(aggregates) THEN FirstErr(aggregates)
    ELSE Built(HashAggregateExecutor(input.v.exec, group_by.v, Values(aggregates),
                                     iter_order),
               (IF Len(group_by.v) = 0 THEN input.v.schema
                ELSE [i \in 1..Len(group_by.v) |-> ExprTyp(group_by.v[i])])
               \o [i \in 1..Len(aggregates) |-> aggregates[i].v.func.ret_type])

\* build_inner, given args
build_inner_args(plan, i, args) ==
    IF ~args.ok THEN args
    ELSE type_check_aggregate_function(plan.aggregates[i].name,
                                       args.v)

\* build_inner, given input
build_inner_input4(plan, iter_order, input) ==
    IF ~input.ok THEN input
    ELSE
    build_inner_group_by(iter_order, input,
                         TypeCheckAll(input.v.schema, plan.group_by),
                         [i \in 1..Len(plan.aggregates) |->
                             build_inner_args(plan, i,
                                              TypeCheckAll(input.v.schema, plan.aggregates[i].args))])

\* ExecutorBuilder::build_inner; iter_order is handed to the HashMap of a HashAggregate
build_inner(ctx, plan, iter_order) ==
    CASE plan.k = "DDL" -> Built(DDLExecutor(plan.job), <<>>)
      [] plan.k = "DML" -> Built(DMLExecutor(plan.job), <<>>)
      [] plan.k = "Project" ->
            build_inner_input(plan, build_inner(ctx, plan.input, iter_order))
      [] plan.k = "Get" ->
            build_inner_found(plan,
                              find_table_by_name(ctx.catalog, plan.schema_name, plan.table_name))
      [] plan.k = "Filter" ->
            build_inner_input2(plan, build_inner(ctx, plan.input, iter_order))
      [] plan.k = "Map" ->
            build_inner_input3(plan, build_inner(ctx, plan.input, iter_order))
      [] plan.k = "Join" ->
            build_inner_left(ctx, plan, iter_order, build_inner(ctx, plan.left, iter_order))
      [] plan.k = "Aggregate" ->
            build_inner_input4(plan, iter_order, build_inner(ctx, plan.input, iter_order))
      [] plan.k = "Explain" -> Built(ValuesExecutor(<< <<StringD(plan.text)>> >>), <<>>)
      [] plan.k = "Use" -> Built(UseExecutor(plan.schema_name), <<>>)

\* build, given built
build_built(built) ==
    IF built.ok THEN Ok(built.v.exec) ELSE built

\* ExecutorBuilder::build
build(ctx, plan, iter_order) ==
    build_built(build_inner(ctx, plan, iter_order))

(***************************************************************************)
(* execute_plan (sql/runtime/mod.rs) and Session::execute                  *)
(* (sql/session/mod.rs).                                                   *)
(***************************************************************************)
\* the outcome of running a plan or a statement: the rows, and the context afterwards
Outcome(ok, err, fields, data, closed, ctx) ==
    [ok |-> ok, err |-> err, fields |-> fields, data |-> data, closed |-> closed, ctx |-> ctx]

RECURSIVE PullAll(_, _, _)

\* PullAll, given pulled
PullAll_pulled(ctx, result, pulled) ==
    IF ~pulled.ok THEN pulled
    ELSE IF Len(pulled.v.tuple) = 0 THEN Ok([exec |-> pulled.v.exec, result |-> result])
    ELSE PullAll(pulled.v.exec, ctx, Append(result, pulled.v.tuple[1]))

\* the `while let Some(tuple) = executor.next(ctx)?` loop of execute_plan
PullAll(exec, ctx, result) ==
    PullAll_pulled(ctx, result, ExecNext(exec, ctx))

\* execute_plan, given pulled
execute_plan_pulled(opened, pulled) ==
    IF ~pulled.ok THEN Outcome(FALSE, pulled.err, <<>>, <<>>, <<>>, opened.ctx)
    ELSE Outcome(TRUE, "None", <<>>, pulled.v.result, ExecClose(pulled.v.exec),
                 opened.ctx)

\* execute_plan, given opened
execute_plan_opened(opened) ==
    IF ~opened.ok THEN Outcome(FALSE, opened.err, <<>>, <<>>, <<>>, opened.ctx)
    ELSE
    execute_plan_pulled(opened, PullAll(opened.exec, opened.ctx, <<>>))

\* execute_plan, given executor
execute_plan_executor(ctx, executor) ==
    IF ~executor.ok THEN Outcome(FALSE, executor.err, <<>>, <<>>, <<>>, ctx)
    ELSE
    execute_plan_opened(ExecOpen(executor.v, ctx))

\* execute_plan
execute_plan(ctx, plan, iter_order) ==
    execute_plan_executor(ctx, build(ctx, plan, iter_order))

\* SessionExecute, given result
SessionExecute_result(bound, result) ==
    IF ~result.ok THEN result
    ELSE [result EXCEPT
             !.fields = [i \in 1..Len(bound.v.scope) |-> bound.v.scope[i].name]]

\* SessionExecute, given bound
SessionExecute_bound(ctx, iter_order, bound) ==
    IF ~bound.ok THEN Outcome(FALSE, bound.err, <<>>, <<>>, <<>>, ctx)
    ELSE SessionExecute_result(bound, execute_plan(ctx, bound.v.plan, iter_order))

\* Session::execute on the parsed statement
SessionExecute(ctx, statement, iter_order) ==
    SessionExecute_bound(ctx, iter_order,
                         bind_statement(ctx.catalog, ctx.current_schema, statement))

(***************************************************************************)
(* Statements (sqlparser::ast::Statement), the fields the binder reads.    *)
(***************************************************************************)
ColumnDef(name, data_type, options) ==
    [name |-> name, data_type |-> data_type, options |-> options]

CreateTableStmt(name, columns) ==
    [k |-> "CreateTable", if_not_exists |-> FALSE, name |-> name, columns |-> columns]

InsertStmt(table_name, rows) ==
    [k |-> "Insert", table_name |-> table_name, source |-> [k |-> "Values", rows |-> rows]]

CreateSchemaStmt(schema_name) ==
    [k |-> "CreateSchema", if_not_exists |-> FALSE, schema_name |-> schema_name]

\* names: one ObjectName, a sequence of identifiers, per object
DropStmt(object_type, names) ==
    [k |-> "Drop", object_type |-> object_type, if_exists |-> FALSE, names |-> names]

ExplainStmt(statement) == [k |-> "Explain", statement |-> statement]

UseStmt(db_name) == [k |-> "Use", db_name |-> db_name]

\* db_name: an Option
ShowTablesStmt(db_name) == [k |-> "ShowTables", db_name |-> db_name]

UnnamedExpr(expr) == [k |-> "UnnamedExpr", expr |-> expr, alias |-> ""]

ExprWithAlias(expr, alias) == [k |-> "ExprWithAlias", expr |-> expr, alias |-> alias]

Wildcard == [k |-> "Wildcard", expr |-> NoExpr, alias |-> ""]

\* TableFactor::Table
Table(name, alias) == [k |-> "Table", name |-> name, alias |-> alias]

\* TableFactor::Derived
Derived(subquery, alias) == [k |-> "Derived", subquery |-> subquery, alias |-> alias]

TableWithJoins(relation, joins) == [relation |-> relation, joins |-> joins]

Join(relation, join_operator) == [relation |-> relation, join_operator |-> join_operator]

CrossJoin == [k |-> "CrossJoin", constraint |-> "None", expr |-> NoExpr]

From(name) == TableWithJoins(Table(<<name>>, <<>>), <<>>)

FromAs(name, alias) == TableWithJoins(Table(<<name>>, <<alias>>), <<>>)

Select(projection, from, selection, group_by, having) ==
    [k |-> "Select", projection |-> projection, from |-> from, selection |-> selection,
     group_by |-> group_by, having |-> having]

QueryStmt(select_stmt) == [k |-> "Query", query |-> select_stmt]

NoStatement == [k |-> "None"]

Str(text) == SingleQuotedString(text)

Col(name) == Identifier(name)

Call(name, args) == Function(<<name>>, args)

(***************************************************************************)
(* The statements the session is driven with: two tables, t(a int, b int)  *)
(* and u(k varchar), inserts that succeed and that fail, and queries over  *)
(* them.                                                                   *)
(***************************************************************************)
CreateT == CreateTableStmt(<<"t">>, << ColumnDef("a", "Int", {}), ColumnDef("b", "Integer", {"Null"}) >>)

CreateU == CreateTableStmt(<<"u">>, << ColumnDef("k", "Varchar", {}) >>)

CreateStatements == {CreateT, CreateU}

InsertT1 == InsertStmt(<<"t">>, << <<Number(<<"1">>), Number(<<"2">>)>> >>)

InsertT2 == InsertStmt(<<"t">>, << <<Number(<<"2">>), NullValue>> >>)

InsertT3 == InsertStmt(<<"t">>, << <<NullValue, Number(<<"0">>)>> >>)

InsertTString == InsertStmt(<<"t">>, << <<Str(<<"1">>), Str(<<"2">>)>> >>)

InsertTTwo ==
    InsertStmt(<<"t">>, << <<Number(<<"2">>), NullValue>>, <<Number(<<"1">>), Number(<<"2">>)>> >>)

InsertTShort == InsertStmt(<<"t">>, << <<Number(<<"1">>), Number(<<"2">>)>>, <<Number(<<"1">>)>> >>)

InsertTColumn == InsertStmt(<<"t">>, << <<Col("a"), Number(<<"2">>)>> >>)

InsertU1 == InsertStmt(<<"u">>, << <<Str(<<"t">>)>> >>)

InsertU2 == InsertStmt(<<"u">>, << <<Number(<<"7">>)>> >>)

InsertStatements ==
    {InsertT1, InsertT2, InsertT3, InsertTString, InsertTTwo, InsertTShort, InsertTColumn,
     InsertU1, InsertU2}

SelectStarT == QueryStmt(Select(<<Wildcard>>, <<From("t")>>, <<>>, <<>>, <<>>))

SelectStarU == QueryStmt(Select(<<Wildcard>>, <<From("u")>>, <<>>, <<>>, <<>>))

APlusA == BinaryOp(Col("a"), "Plus", Col("a"))

APlusOne == BinaryOp(Col("a"), "Plus", Number(<<"1">>))

AGtOne == BinaryOp(Col("a"), "Gt", Number(<<"1">>))

\* SELECT a + a FROM t WHERE a > 1
SelectOneComputed ==
    QueryStmt(Select(<<UnnamedExpr(APlusA)>>, <<From("t")>>, <<AGtOne>>, <<>>, <<>>))

\* SELECT a + 1, a + a FROM t
SelectTwoComputed ==
    QueryStmt(Select(<<UnnamedExpr(APlusOne), UnnamedExpr(APlusA)>>, <<From("t")>>,
                     <<>>, <<>>, <<>>))

\* SELECT a AS x, a + 1, b FROM t
SelectAliased ==
    QueryStmt(Select(<<ExprWithAlias(Col("a"), "x"), UnnamedExpr(APlusOne), UnnamedExpr(Col("b"))>>,
                     <<From("t")>>, <<>>, <<>>, <<>>))

\* SELECT * FROM t WHERE a > 1
SelectWhereGt == QueryStmt(Select(<<Wildcard>>, <<From("t")>>, <<AGtOne>>, <<>>, <<>>))

\* SELECT a FROM t WHERE a = NULL
SelectWhereNull ==
    QueryStmt(Select(<<UnnamedExpr(Col("a"))>>, <<From("t")>>,
                     <<BinaryOp(Col("a"), "Eq", NullValue)>>, <<>>, <<>>))

\* SELECT * FROM t WHERE b
SelectWhereInt == QueryStmt(Select(<<Wildcard>>, <<From("t")>>, <<Col("b")>>, <<>>, <<>>))

\* SELECT * FROM u WHERE k
SelectWhereString == QueryStmt(Select(<<Wildcard>>, <<From("u")>>, <<Col("k")>>, <<>>, <<>>))

\* SELECT * FROM t, u
SelectCross == QueryStmt(Select(<<Wildcard>>, <<From("t"), From("u")>>, <<>>, <<>>, <<>>))

\* SELECT * FROM u CROSS JOIN t
SelectCrossJoin ==
    QueryStmt(Select(<<Wildcard>>,
                     <<TableWithJoins(Table(<<"u">>, <<>>), <<Join(Table(<<"t">>, <<>>), CrossJoin)>>)>>,
                     <<>>, <<>>, <<>>))

\* SELECT * FROM u, t, u AS w
SelectCrossThree ==
    QueryStmt(Select(<<Wildcard>>, <<From("u"), From("t"), FromAs("u", "w")>>, <<>>, <<>>, <<>>))

\* SELECT count(*), sum(b), avg(a) FROM t
SelectAggregates ==
    QueryStmt(Select(<<UnnamedExpr(Call("count", <<WildcardArg>>)),
                       UnnamedExpr(Call("sum", <<Col("b")>>)),
                       UnnamedExpr(Call("avg", <<Col("a")>>))>>,
                     <<From("t")>>, <<>>, <<>>, <<>>))

\* SELECT b, sum(a) FROM t GROUP BY b
SelectGrouped ==
    QueryStmt(Select(<<UnnamedExpr(Col("b")), UnnamedExpr(Call("sum", <<Col("a")>>))>>,
                     <<From("t")>>, <<>>, <<Col("b")>>, <<>>))

\* SELECT c FROM t
SelectNoColumn == QueryStmt(Select(<<UnnamedExpr(Col("c"))>>, <<From("t")>>, <<>>, <<>>, <<>>))

\* SELECT 1
SelectNoFrom == QueryStmt(Select(<<UnnamedExpr(Number(<<"1">>))>>, <<>>, <<>>, <<>>, <<>>))

\* SELECT count(*) FROM t
SelectCountStar ==
    QueryStmt(Select(<<UnnamedExpr(Call("count", <<WildcardArg>>))>>, <<From("t")>>,
                     <<>>, <<>>, <<>>))

\* SELECT count(b) FROM t
SelectCountColumn ==
    QueryStmt(Select(<<UnnamedExpr(Call("count", <<Col("b")>>))>>, <<From("t")>>,
                     <<>>, <<>>, <<>>))

\* SELECT b, count(*) FROM t GROUP BY b
SelectCountGrouped ==
    QueryStmt(Select(<<UnnamedExpr(Col("b")), UnnamedExpr(Call("count", <<WildcardArg>>))>>,
                     <<From("t")>>, <<>>, <<Col("b")>>, <<>>))

\* SELECT * FROM t, t
SelectSelfCross == QueryStmt(Select(<<Wildcard>>, <<From("t"), From("t")>>, <<>>, <<>>, <<>>))

\* SELECT * FROM (SELECT a + 1, b + 1 FROM t) AS d
SelectDerived ==
    QueryStmt(Select(<<Wildcard>>,
                     <<TableWithJoins(
                           Derived(Select(<<UnnamedExpr(BinaryOp(Col("a"), "Plus", Number(<<"1">>))),
                                            UnnamedExpr(BinaryOp(Col("b"), "Plus", Number(<<"1">>)))>>,
                                          <<From("t")>>, <<>>, <<>>, <<>>),
                                   <<"d">>),
                           <<>>)>>,
                     <<>>, <<>>, <<>>))

QueryStatements ==
    {SelectStarT, SelectStarU, SelectOneComputed, SelectTwoComputed, SelectAliased,
     SelectWhereGt, SelectWhereNull, SelectWhereInt, SelectWhereString, SelectCross,
     SelectCrossJoin, SelectCrossThree, SelectAggregates, SelectGrouped, SelectNoColumn,
     SelectNoFrom, SelectCountStar, SelectCountColumn, SelectCountGrouped, SelectSelfCross,
     SelectDerived}

(***************************************************************************)
(* The session as a state machine.  catalog, relations and current_schema  *)
(* are the QueryContext the Session owns; last is the statement just       *)
(* executed with its QueryResult or error; pc is "ready" before a          *)
(* statement and "done" while its response is being returned.  inserted is *)
(* a history variable: per relation, the rows of the successful INSERTs.   *)
(***************************************************************************)
NoRelations == [key \in {} |-> <<>>]

NoLast ==
    [statement |-> NoStatement, ok |-> TRUE, err |-> "None", fields |-> <<>>, data |-> <<>>,
     closed |-> <<>>]

NoProbe == [k |-> "None"]

\* the orders in which a HashMap of at most MaxRows entries can be iterated
IterOrders == {o \in [1..MaxRows -> 1..MaxRows] : \A i, j \in 1..MaxRows : o[i] = o[j] => i = j}

\* QueryContext::new, Session::new
Init ==
    /\ catalog = CatalogNew
    /\ relations = NoRelations
    /\ current_schema = "default"
    /\ pc = "ready"
    /\ last = NoLast
    /\ inserted = NoRelations
    /\ probe = NoProbe

\* the rows of an INSERT as the literals of its VALUES lists, cast to the column types
InsertedRows(statement, columns) ==
    [r \in 1..Len(statement.source.rows) |->
        [c \in 1..Len(columns) |->
            cast(DatumFromValue(statement.source.rows[r][c].value).v, columns[c].data_type)]]

\* Execute, given result
Execute_result(statement, result) ==
    /\ catalog' = result.ctx.catalog
    /\ relations' = result.ctx.relations
    /\ current_schema' = result.ctx.current_schema
    /\ last' = [statement |-> statement, ok |-> result.ok, err |-> result.err,
                fields |-> result.fields, data |-> result.data, closed |-> result.closed]
    /\ pc' = "done"

\* Session::execute of one statement, the response kept in last
Execute(statement, iter_order) ==
    Execute_result(statement,
                   SessionExecute(QueryContext(catalog, relations, current_schema),
                                  statement, iter_order))

CreateTable(statement) ==
    /\ pc = "ready"
    /\ Execute(statement, <<>>)
    /\ inserted' = IF last'.ok THEN create_relation(inserted, current_schema, statement.name[1])
                   ELSE inserted
    /\ UNCHANGED probe

\* an INSERT; the guard keeps every relation within MaxRows rows
Insert(statement) ==
    LET name == <<current_schema, statement.table_name[1]>>
    IN  /\ pc = "ready"
        /\ name \in DOMAIN relations =>
              Len(relations[name]) + Len(statement.source.rows) <= MaxRows
        /\ Execute(statement, <<>>)
        /\ inserted' = IF last'.ok
                       THEN [inserted EXCEPT
                                ![name] = @ \o InsertedRows(
                                                   statement,
                                                   find_table_by_name(catalog, name[1], name[2])
                                                       .v[1].columns)]
                       ELSE inserted
        /\ UNCHANGED probe

\* a query; only a GROUP BY iterates a HashMap, whose order is then any order
Query(statement) ==
    /\ pc = "ready"
    /\ \E iter_order \in IF Len(statement.query.group_by) = 0
                          THEN {[i \in 1..MaxRows |-> i]} ELSE IterOrders :
          Execute(statement, iter_order)
    /\ UNCHANGED <<inserted, probe>>

\* the response is returned and the session waits for the next statement
Respond ==
    /\ pc = "done"
    /\ pc' = "ready"
    /\ last' = NoLast
    /\ probe' = NoProbe
    /\ UNCHANGED <<catalog, relations, current_schema, inserted>>

Next ==
    \/ \E statement \in CreateStatements : CreateTable(statement)
    \/ \E statement \in InsertStatements : Insert(statement)
    \/ \E statement \in QueryStatements : Query(statement)
    \/ Respond

Spec == Init /\ [][Next]_vars

(***************************************************************************)
(* The hash aggregate executor on its own: an input of (key, value) rows   *)
(* handed to it by a Values executor, one registered aggregate over the    *)
(* value column, with or without the key as the GROUP BY expression.       *)
(***************************************************************************)
RECURSIVE SeqsUpTo(_, _)
SeqsUpTo(S, n) ==
    IF n = 0 THEN {<<>>}
    ELSE SeqsUpTo(S, n - 1) \cup {Append(q, x) : q \in {r \in SeqsUpTo(S, n - 1) : Len(r) = n - 1}, x \in S}

AggregateFunctions ==
    {CountOverloads[i] : i \in 1..Len(CountOverloads)}
    \cup {SumOverloads[i] : i \in 1..Len(SumOverloads)}
    \cup {AvgOverloads[i] : i \in 1..Len(AvgOverloads)}
    \cup {MinMaxOverloads("min")[i] : i \in 1..Len(MinMaxOverloads("min"))}
    \cup {MinMaxOverloads("max")[i] : i \in 1..Len(MinMaxOverloads("max"))}

\* the type of the value column an overload is run over
ValueType(func) ==
    IF Len(func.arg_types) = 0 \/ func.arg_types[1] = "Any" THEN "Int" ELSE func.arg_types[1]

AggregateKeys == {IntD(1), NullD}

AggregateValues(ty) ==
    CASE ty = "Int" -> {IntD(1), IntD(2), NullD}
      [] ty = "Float" -> {FloatD(1, 2), FloatD(3, 2), NullD}
      [] ty = "String" -> {StringD(<<"a">>), StringD(<<"x">>), NullD}

AggregateProbes ==
    UNION {[k : {"Aggregate"}, func : {func}, grouped : BOOLEAN,
            input : SeqsUpTo(AggregateKeys \X AggregateValues(ValueType(func)), MaxRows),
            ok : {TRUE}, data : {<<>>}] : func \in AggregateFunctions}

InitAggregate ==
    /\ catalog = CatalogNew
    /\ relations = NoRelations
    /\ current_schema = "default"
    /\ pc = "ready"
    /\ last = NoLast
    /\ inserted = NoRelations
    /\ probe \in AggregateProbes

\* RunAggregate, given pulled
RunAggregate_pulled(pulled) ==
    probe' = [probe EXCEPT !.ok = pulled.ok,
                           !.data = IF pulled.ok THEN pulled.v.result ELSE <<>>]

\* RunAggregate, given opened
RunAggregate_opened(opened) ==
    RunAggregate_pulled(PullAll(opened.exec, opened.ctx, <<>>))

\* open, then next until None, on a HashAggregateExecutor over the probe's input
RunAggregate ==
    /\ pc = "ready"
    /\ probe.k = "Aggregate"
    /\ \E iter_order \in IterOrders :
          LET exec == HashAggregateExecutor(
                          ValuesExecutor(probe.input),
                          IF probe.grouped THEN <<ColumnE(0, "Int")>> ELSE <<>>,
                          << [func |-> probe.func,
                              args |-> IF Len(probe.func.arg_types) = 0 THEN <<>>
                                       ELSE <<ColumnE(1, ValueType(probe.func))>>] >>,
                          iter_order)
          IN  RunAggregate_opened(ExecOpen(exec, QueryContext(catalog, relations, current_schema)))
    /\ pc' = "done"
    /\ UNCHANGED <<catalog, relations, current_schema, last, inserted>>

NextAggregate == RunAggregate

SpecAggregate == InitAggregate /\ [][NextAggregate]_vars

(***************************************************************************)
(* Datum::cast on its own: a datum, cast to a type and back to its own.    *)
(***************************************************************************)
CastStrings ==
    { <<"1">>, <<"0", "1">>, <<"-", "1">>, <<"+", "1">>, <<"1", ".", "5">>,
      <<"1", ".", "5", "0">>, <<"1", "e", "1">>, <<"x">>, <<>>, <<"t">>, <<"T">>,
      <<"t", "r", "u", "e">>, <<"f">>, <<"F", "A", "L", "S", "E">> }

CastData ==
    {IntD(v) : v \in (0 - MaxInt)..MaxInt}
    \cup {FloatD(n, 2) : n \in (0 - 2 * MaxInt - 1)..(2 * MaxInt + 1)}
    \cup {FloatD(1, 4)}
    \cup {StringD(str) : str \in CastStrings}
    \cup {BooleanD(TRUE), BooleanD(FALSE)}

InitCast ==
    /\ catalog = CatalogNew
    /\ relations = NoRelations
    /\ current_schema = "default"
    /\ pc = "ready"
    /\ last = NoLast
    /\ inserted = NoRelations
    /\ probe \in [k : {"Cast"}, d : CastData, dest : ConcreteType, same : {NullD},
                  there : {NullD}, back : {NullD}]

\* d.cast(T), d.cast(T') and d.cast(T').cast(T) for the probe's d and T'
ApplyCast ==
    /\ pc = "ready"
    /\ probe.k = "Cast"
    /\ probe' = [probe EXCEPT !.same = cast(probe.d, typ(probe.d)),
                              !.there = cast(probe.d, probe.dest),
                              !.back = cast(cast(probe.d, probe.dest), typ(probe.d))]
    /\ pc' = "done"
    /\ UNCHANGED <<catalog, relations, current_schema, last, inserted>>

NextCast == ApplyCast

SpecCast == InitCast /\ [][NextCast]_vars

(***************************************************************************)
(* type_check_function on its own: a function name and up to MaxArgs       *)
(* typed arguments.                                                        *)
(***************************************************************************)
ArgumentTypes == {"Int", "Float", "String", "Boolean", "Null"}

FunctionNames == ArithmeticNames \cup ComparisonNames \cup CastNames \cup {"nosuch"}

\* an argument expression of a type: a column of that type, or the Null literal
Argument(i, ty) == IF ty = "Null" THEN LiteralE(NullD, "Null") ELSE ColumnE(i - 1, ty)

InitTypeCheck ==
    /\ catalog = CatalogNew
    /\ relations = NoRelations
    /\ current_schema = "default"
    /\ pc = "ready"
    /\ last = NoLast
    /\ inserted = NoRelations
    /\ probe \in {[k |-> "TypeCheck", name |-> name,
                   args |-> [i \in 1..Len(types) |-> Argument(i, types[i])],
                   out |-> Err("None")] :
                     name \in FunctionNames, types \in SeqsUpTo(ArgumentTypes, MaxArgs)}

ResolveOverload ==
    /\ pc = "ready"
    /\ probe.k = "TypeCheck"
    /\ probe' = [probe EXCEPT !.out = type_check_function(probe.name, probe.args)]
    /\ pc' = "done"
    /\ UNCHANGED <<catalog, relations, current_schema, last, inserted>>

NextTypeCheck == ResolveOverload

SpecTypeCheck == InitTypeCheck /\ [][NextTypeCheck]_vars

(***************************************************************************)
(* The arithmetic functions on their own: an overload of + or - applied to *)
(* two arguments of its parameter type, or Null.                           *)
(***************************************************************************)
ArithmeticFunctions ==
    {ArithmeticOverloads(name)[o] : name \in ArithmeticNames, o \in 1..2}

ArithmeticData(ty) ==
    {NullD} \cup (IF ty = "Int" THEN {IntD(v) : v \in (0 - MaxInt)..MaxInt}
                  ELSE {FloatD(n, 2) : n \in (0 - MaxInt)..MaxInt})

ArithmeticProbes ==
    UNION {[k : {"Scalar"}, func : {func},
            args : ArithmeticData(func.arg_types[1]) \X ArithmeticData(func.arg_types[2]),
            out : {NullD}] : func \in ArithmeticFunctions}

InitScalar ==
    /\ catalog = CatalogNew
    /\ relations = NoRelations
    /\ current_schema = "default"
    /\ pc = "ready"
    /\ last = NoLast
    /\ inserted = NoRelations
    /\ probe \in ArithmeticProbes

\* (func.eval)(args) for the probe's overload and arguments
ApplyScalar ==
    /\ pc = "ready"
    /\ probe.k = "Scalar"
    /\ probe' = [probe EXCEPT !.out = ScalarEval(probe.func, probe.args)]
    /\ pc' = "done"
    /\ UNCHANGED <<catalog, relations, current_schema, last, inserted>>

NextScalar == ApplyScalar

SpecScalar == InitScalar /\ [][NextScalar]_vars

(***************************************************************************)
(* The session under schema and table definition statements: CREATE and    *)
(* DROP of schemas and tables, USE, SHOW TABLES, and INSERT and SELECT     *)
(* with and without a schema name.  The schema "s" is created and dropped, *)
(* "r" never exists; the table "t" is created and dropped, "u" never       *)
(* exists.  inserted is not kept here; probe is the context before the     *)
(* statement that is being answered.                                       *)
(***************************************************************************)
OneColumn == << ColumnDef("a", "Int", {}) >>

\* the object name as written: qualified by schema_name, or not when it is ""
Named(schema_name, table_name) ==
    IF schema_name = "" THEN <<table_name>> ELSE <<schema_name, table_name>>

CreateTableIn(schema_name) == CreateTableStmt(Named(schema_name, "t"), OneColumn)

DropTableIn(schema_name) == DropStmt("Table", << Named(schema_name, "t") >>)

DropTwoTablesIn(schema_name) ==
    DropStmt("Table", << Named(schema_name, "t"), Named(schema_name, "u") >>)

InsertIn(schema_name) == InsertStmt(Named(schema_name, "t"), << <<Number(<<"1">>)>> >>)

SelectIn(schema_name) ==
    QueryStmt(Select(<<Wildcard>>, <<TableWithJoins(Table(Named(schema_name, "t"), <<>>), <<>>)>>,
                     <<>>, <<>>, <<>>))

ShowTablesIn(schema_name) ==
    ShowTablesStmt(IF schema_name = "" THEN <<>> ELSE <<schema_name>>)

\* a second layout of t: CREATE TABLE t(a varchar, b int)
TwoColumns == << ColumnDef("a", "Varchar", {}), ColumnDef("b", "Int", {}) >>

CreateTableWide == CreateTableStmt(<<"t">>, TwoColumns)

\* INSERT INTO t VALUES ('x', 'x')
InsertWide == InsertStmt(<<"t">>, << <<Str(<<"x">>), Str(<<"x">>)>> >>)

\* how a statement names its schema: not at all, or one of these
Written == {"", "s"}

CreateSchemaStatements == {CreateSchemaStmt("s")}

DropSchemaStatements == {DropStmt("Schema", << <<"s">> >>), DropStmt("Schema", << <<"s">>, <<"r">> >>)}

CreateTableStatements == {CreateTableIn(w) : w \in Written} \cup {CreateTableWide}

DropTableStatements == {DropTableIn(w) : w \in Written} \cup {DropTwoTablesIn("")}

UseStatements == {UseStmt("default"), UseStmt("s"), UseStmt("r")}

ShowTablesStatements == {ShowTablesIn(w) : w \in Written}

InsertIntoStatements == {InsertIn(w) : w \in Written} \cup {InsertWide}

SelectFromStatements == {SelectIn(w) : w \in Written}

\* EXPLAIN of a statement of every kind
ExplainStatements ==
    {ExplainStmt(statement) :
        statement \in {CreateSchemaStmt("s"), DropStmt("Schema", << <<"s">> >>),
                       CreateTableIn(""), DropTableIn(""), InsertIn(""), SelectIn(""),
                       UseStmt("s")}}

\* Session::execute of a statement that iterates no HashMap; probe keeps the
\* QueryContext the statement found, until the response is returned
Run(statement) ==
    /\ pc = "ready"
    /\ Execute(statement, [i \in 1..MaxRows |-> i])
    /\ probe' = [k |-> "Before", ctx |-> QueryContext(catalog, relations, current_schema)]
    /\ UNCHANGED inserted

CreateSchema(statement) ==
    /\ statement.k = "CreateSchema"
    /\ Run(statement)

DropSchema(statement) ==
    /\ statement.k = "Drop" /\ statement.object_type = "Schema"
    /\ Run(statement)

CreateTableNamed(statement) ==
    /\ statement.k = "CreateTable"
    /\ Run(statement)

DropTable(statement) ==
    /\ statement.k = "Drop" /\ statement.object_type = "Table"
    /\ Run(statement)

Use(statement) ==
    /\ statement.k = "Use"
    /\ Run(statement)

ShowTables(statement) ==
    /\ statement.k = "ShowTables"
    /\ Run(statement)

\* an INSERT of one row; the guard keeps every relation within MaxRows rows
InsertInto(statement) ==
    /\ statement.k = "Insert"
    /\ \A key \in DOMAIN relations : Len(relations[key]) < MaxRows
    /\ Run(statement)

SelectFrom(statement) ==
    /\ statement.k = "Query"
    /\ Run(statement)

Explain(statement) ==
    /\ statement.k = "Explain"
    /\ Run(statement)

NextDDL ==
    \/ \E statement \in CreateSchemaStatements : CreateSchema(statement)
    \/ \E statement \in DropSchemaStatements : DropSchema(statement)
    \/ \E statement \in CreateTableStatements : CreateTableNamed(statement)
    \/ \E statement \in DropTableStatements : DropTable(statement)
    \/ \E statement \in UseStatements : Use(statement)
    \/ \E statement \in ShowTablesStatements : ShowTables(statement)
    \/ \E statement \in InsertIntoStatements : InsertInto(statement)
    \/ \E statement \in SelectFromStatements : SelectFrom(statement)
    \/ \E statement \in ExplainStatements : Explain(statement)
    \/ Respond

SpecDDL == Init /\ [][NextDDL]_vars

(***************************************************************************)
(* The server (server/mod.rs, main.rs): one Session behind a Mutex, shared  *)
(* by the handlers of all client connections.  Here pc and last are kept   *)
(* per connection; probe is the Mutex: the connection that holds the guard *)
(* (0: none) and, as history, the QueryContext that holder found.          *)
(* Session::execute is two steps, binding and running the plan, so that    *)
(* connections could interleave inside it if the guard let them.           *)
(***************************************************************************)
Connections == {1, 2}

ServerStatements == {CreateTableIn(""), InsertIn(""), SelectIn(""), DropTableIn("")}

Mutex(holder, ctx) == [k |-> "Mutex", holder |-> holder, ctx |-> ctx]

\* a lock() that returns although another connection holds the guard
lock_unguarded(mutex) == TRUE

\* Mutex::lock returns only when no guard is alive
lock(mutex) == mutex.holder = 0

\* what a connection holds of its statement: the statement, the binder's result once
\* bound, and the outcome once run
Request(statement, bound, result) == [statement |-> statement, bound |-> bound, result |-> result]

NoBound == Err("None")

NoResult == Outcome(TRUE, "None", <<>>, <<>>, <<>>, <<>>)

\* the connections whose handler has a statement and has not returned
InFlight == {c \in Connections : pc[c] # "idle"}

\* the connections inside Session::execute or between it and the return of do_query
Guarded == {c \in Connections : pc[c] \in {"locked", "bound", "executed"}}

StoredRows == Concat([i \in 1..Len(catalog) |->
                         Concat([a \in 1..Len(catalog[i].tables) |->
                                    relations[<<catalog[i].name, catalog[i].tables[a].name>>]])])

\* main and Session::new
InitServer ==
    /\ catalog = CatalogNew
    /\ relations = NoRelations
    /\ current_schema = "default"
    /\ pc = [c \in Connections |-> "idle"]
    /\ last = [c \in Connections |-> Request(NoStatement, NoBound, NoResult)]
    /\ inserted = NoRelations
    /\ probe = Mutex(0, QueryContext(CatalogNew, NoRelations, "default"))

\* a query arrives on a connection and its handler's do_query is called; the guard
\* keeps the stored rows within MaxRows
Arrive(c, statement) ==
    /\ pc[c] = "idle"
    /\ statement.k = "Insert" =>
          Len(StoredRows)
              + Cardinality({d \in InFlight : last[d].statement.k = "Insert"}) < MaxRows
    /\ pc' = [pc EXCEPT ![c] = "waiting"]
    /\ last' = [last EXCEPT ![c] = Request(statement, NoBound, NoResult)]
    /\ UNCHANGED <<catalog, relations, current_schema, inserted, probe>>

\* self.session.lock().unwrap()
Lock(c) ==
    /\ pc[c] = "waiting"
    /\ lock(probe)
    /\ pc' = [pc EXCEPT ![c] = "locked"]
    /\ probe' = Mutex(c, QueryContext(catalog, relations, current_schema))
    /\ UNCHANGED <<catalog, relations, current_schema, last, inserted>>

\* Session::execute up to the bound plan
Bind(c) ==
    /\ pc[c] = "locked"
    /\ pc' = [pc EXCEPT ![c] = "bound"]
    /\ last' = [last EXCEPT ![c].bound =
                    bind_statement(catalog, current_schema, last[c].statement)]
    /\ UNCHANGED <<catalog, relations, current_schema, inserted, probe>>

\* ExecutePlan, given result
ExecutePlan_result(c, result) ==
    /\ catalog' = result.ctx.catalog
    /\ relations' = result.ctx.relations
    /\ current_schema' = result.ctx.current_schema
    /\ last' = [last EXCEPT ![c].result = [result EXCEPT !.ctx = <<>>]]

\* Session::execute from the bound plan to its return
ExecutePlan(c) ==
    /\ pc[c] = "bound"
    /\ pc' = [pc EXCEPT ![c] = "executed"]
    /\ ExecutePlan_result(c, SessionExecute_bound(
                                 QueryContext(catalog, relations, current_schema),
                                 [i \in 1..MaxRows |-> i], last[c].bound))
    /\ UNCHANGED <<inserted, probe>>

\* do_query returns the response or the error, and the guard is dropped
Return(c) ==
    /\ pc[c] = "executed"
    /\ pc' = [pc EXCEPT ![c] = "idle"]
    /\ last' = [last EXCEPT ![c] = Request(NoStatement, NoBound, NoResult)]
    /\ probe' = Mutex(IF probe.holder = c THEN 0 ELSE probe.holder, probe.ctx)
    /\ UNCHANGED <<catalog, relations, current_schema, inserted>>

NextServer ==
    \/ \E c \in Connections : \E statement \in ServerStatements : Arrive(c, statement)
    \/ \E c \in Connections : Lock(c)
    \/ \E c \in Connections : Bind(c)
    \/ \E c \in Connections : ExecutePlan(c)
    \/ \E c \in Connections : Return(c)

SpecServer == InitServer /\ [][NextServer]_vars

(***************************************************************************)
(* Properties.  The reference values below are written from the meaning of *)
(* the SQL, over the stored rows, not by running the executors.            *)
(***************************************************************************)
Answered(statement) == pc = "done" /\ last.statement = statement

Stored(name) == relations[<<"default", name>>]

Exists(name) == <<"default", name>> \in DOMAIN relations

\* C1: after CREATE TABLE and any sequence of successful INSERTs, SELECT * returns
\* exactly the inserted rows, cast to the column types, each once, in insertion order
\* across and within the INSERT statements.
C1_InsertThenScan ==
    /\ (Answered(SelectStarT) /\ <<"default", "t">> \in DOMAIN inserted) =>
          (last.ok /\ last.data = inserted[<<"default", "t">>])
    /\ (Answered(SelectStarU) /\ <<"default", "u">> \in DOMAIN inserted) =>
          (last.ok /\ last.data = inserted[<<"default", "u">>])

C1_Witness ==
    /\ Answered(SelectStarT)
    /\ last.ok
    /\ Len(last.data) >= 2
    /\ last.data[1] # last.data[2]

\* a + b on Int columns: Null if either side is Null
RefPlus(l, r) == IF is_null(l) \/ is_null(r) THEN NullD ELSE IntD(l.i + r.i)

\* the rows a select list of computed items must produce from the rows of t
RefComputed(statement) ==
    CASE statement = SelectOneComputed ->
            LET kept(row) == ~is_null(row[1]) /\ row[1].i > 1
                rows == SelectSeq(Stored("t"), kept)
            IN  [r \in 1..Len(rows) |-> <<RefPlus(rows[r][1], rows[r][1])>>]
      [] statement = SelectTwoComputed ->
            [r \in 1..Len(Stored("t")) |->
                <<RefPlus(Stored("t")[r][1], IntD(1)),
                  RefPlus(Stored("t")[r][1], Stored("t")[r][1])>>]
      [] statement = SelectAliased ->
            [r \in 1..Len(Stored("t")) |->
                <<Stored("t")[r][1], RefPlus(Stored("t")[r][1], IntD(1)), Stored("t")[r][2]>>]

\* C2: with k >= 1 select items that are not plain columns, the j-th of them is read
\* from position n + j of the Map output, so every output column of every row carries
\* the value of its own select-list expression.
C2_EveryColumnItsOwnExpression ==
    \A statement \in {SelectOneComputed, SelectTwoComputed, SelectAliased} :
        (Answered(statement) /\ Exists("t")) =>
            (last.ok /\ last.data = RefComputed(statement))

\* the values of the probe's input rows whose key is key, Null values left out
ValuesOf(rows) ==
    LET present(row) == ~is_null(row[2])
        kept == SelectSeq(rows, present)
    IN  [i \in 1..Len(kept) |-> kept[i][2]]

RowsWithKey(key) ==
    LET same(row) == row[1] = key
    IN  SelectSeq(probe.input, same)

\* the sum of values as a fraction
RECURSIVE RefTotal(_)
RefTotal(values) ==
    IF Len(values) = 0 THEN [num |-> 0, den |-> 1]
    ELSE LET rest == RefTotal(Tail(values))
         IN  [num |-> Head(values).i * rest.den + rest.num * Head(values).d,
              den |-> Head(values).d * rest.den]

RefLess(l, r) == IF l.t = "String" THEN StrLess(l.s, r.s) ELSE l.i * r.d < r.i * l.d

RefSum(values) ==
    IF Len(values) = 0 THEN NullD
    ELSE IF values[1].t = "Int" THEN IntD(RefTotal(values).num)
    ELSE FloatD(RefTotal(values).num, RefTotal(values).den)

RefMin(values) ==
    IF Len(values) = 0 THEN NullD
    ELSE CHOOSE v \in {values[i] : i \in 1..Len(values)} :
             \A i \in 1..Len(values) : ~RefLess(values[i], v)

RefMax(values) ==
    IF Len(values) = 0 THEN NullD
    ELSE CHOOSE v \in {values[i] : i \in 1..Len(values)} :
             \A i \in 1..Len(values) : ~RefLess(v, values[i])

RefAvg(values) ==
    IF Len(values) = 0 THEN NullD
    ELSE FloatD(RefTotal(values).num, RefTotal(values).den * Len(values))

\* the aggregate of the probe's function over rows
RefAggregate(rows) ==
    CASE probe.func.name = "count" /\ Len(probe.func.arg_types) = 0 -> IntD(Len(rows))
      [] probe.func.name = "count" /\ Len(probe.func.arg_types) = 1 -> IntD(Len(ValuesOf(rows)))
      [] probe.func.name = "sum" -> RefSum(ValuesOf(rows))
      [] probe.func.name = "min" -> RefMin(ValuesOf(rows))
      [] probe.func.name = "max" -> RefMax(ValuesOf(rows))
      [] probe.func.name = "avg" -> RefAvg(ValuesOf(rows))

Aggregated == pc = "done" /\ probe.k = "Aggregate"

\* C3: an aggregate without GROUP BY emits exactly one row for any input; over an
\* empty input, or an input whose argument values are all Null, count is 0 and sum,
\* min, max and avg are Null; with GROUP BY an empty input emits no row.
C3_ScalarAggregateOneRow ==
    Aggregated =>
        /\ probe.ok
        /\ ~probe.grouped => (Len(probe.data) = 1 /\ Len(probe.data[1]) = 1)
        /\ (/\ ~probe.grouped
            /\ \/ Len(probe.input) = 0
               \/ Len(probe.func.arg_types) = 1 /\ Len(ValuesOf(probe.input)) = 0) =>
              probe.data[1][1] = IF probe.func.name = "count" THEN IntD(0) ELSE NullD
        /\ (probe.grouped /\ Len(probe.input) = 0) => probe.data = <<>>

C3_Witness ==
    /\ Aggregated
    /\ ~probe.grouped
    /\ probe.func.name = "sum"
    /\ Len(probe.input) >= 2
    /\ Len(ValuesOf(probe.input)) = 0
    /\ probe.data = << <<NullD>> >>

\* C4: SELECT k, f(v) ... GROUP BY k with f among sum, min, max and count(*) has
\* exactly one row per distinct k, the rows with a Null k forming one group, and the
\* aggregate of each row is f over the v of the rows with that k, Null v skipped
\* by sum, min and max and every row counted by count(*).
C4_OneRowPerKey ==
    (/\ Aggregated
     /\ probe.grouped
     /\ \/ probe.func.name \in {"sum", "min", "max"}
        \/ probe.func.name = "count" /\ Len(probe.func.arg_types) = 0) =>
        /\ probe.ok
        /\ \A r \in 1..Len(probe.data) : Len(probe.data[r]) = 2
        /\ {probe.data[r][1] : r \in 1..Len(probe.data)}
              = {probe.input[i][1] : i \in 1..Len(probe.input)}
        /\ Len(probe.data) = Cardinality({probe.input[i][1] : i \in 1..Len(probe.input)})
        /\ \A r \in 1..Len(probe.data) :
              probe.data[r][2] = RefAggregate(RowsWithKey(probe.data[r][1]))

C4_Witness ==
    /\ Aggregated
    /\ probe.grouped
    /\ probe.func.name = "sum"
    /\ Len(probe.input) >= 2
    /\ probe.data = << <<NullD, IntD(3)>> >>

\* C5: avg over a group is the sum of the non-Null argument values divided by their
\* number when there is at least one, and Null otherwise.
C5_AvgIsSumOverCount ==
    (Aggregated /\ probe.func.name = "avg") =>
        /\ probe.ok
        /\ ~probe.grouped => probe.data = << <<RefAvg(ValuesOf(probe.input))>> >>
        /\ probe.grouped =>
              \A r \in 1..Len(probe.data) :
                  probe.data[r][2] = RefAvg(ValuesOf(RowsWithKey(probe.data[r][1])))

\* the rows of A joined with the rows of B, A outermost
Cross(A, B) ==
    [p \in 1..(Len(A) * Len(B)) |->
        A[((p - 1) \div Len(B)) + 1] \o B[((p - 1) % Len(B)) + 1]]

\* C6: a cross join of A (left) and B (right) emits |A| * |B| rows, each an A-row
\* followed by a B-row, for each A-row in order all B-rows in order, and none when a
\* side is empty; FROM a, b, c joins (a join b) as the outer side with c.
C6_CrossJoinOuterMajor ==
    (Exists("t") /\ Exists("u")) =>
        /\ Answered(SelectCross) => (last.ok /\ last.data = Cross(Stored("t"), Stored("u")))
        /\ Answered(SelectCrossJoin) => (last.ok /\ last.data = Cross(Stored("u"), Stored("t")))
        /\ Answered(SelectCrossThree) =>
              (last.ok /\ last.data = Cross(Cross(Stored("u"), Stored("t")), Stored("u")))

C6_Witness ==
    /\ Answered(SelectCrossThree)
    /\ last.ok
    /\ Len(last.data) >= 8
    /\ last.data[1] # last.data[2]

\* the rows of a relation a WHERE clause keeps
RefKept(statement) ==
    LET gt(row) == ~is_null(row[1]) /\ row[1].i > 1
        nonzero(row) == ~is_null(row[2]) /\ row[2].i # 0
        truth(row) == row[1].s \in {<<"t">>, <<"t", "r", "u", "e">>}
    IN  CASE statement = SelectWhereGt -> SelectSeq(Stored("t"), gt)
          [] statement = SelectWhereNull -> <<>>
          [] statement = SelectWhereInt -> SelectSeq(Stored("t"), nonzero)
          [] statement = SelectWhereString -> SelectSeq(Stored("u"), truth)

\* C7: a Filter emits, in input order, exactly the rows whose predicate is Boolean
\* true or casts to Boolean true; a row whose predicate is false, Null or does not
\* cast to Boolean is dropped without an error, so WHERE a = NULL yields no rows.
C7_FilterKeepsTrueRows ==
    /\ \A statement \in {SelectWhereGt, SelectWhereNull, SelectWhereInt} :
          (Answered(statement) /\ Exists("t")) =>
              (last.ok /\ last.data = RefKept(statement))
    /\ (Answered(SelectWhereString) /\ Exists("u")) =>
          (last.ok /\ last.data = RefKept(SelectWhereString))

C7_Witness ==
    /\ Answered(SelectWhereInt)
    /\ last.ok
    /\ Len(last.data) > 0
    /\ Len(last.data) < Len(Stored("t"))

\* the tables of a FROM clause, in order
FromTables(from) ==
    Concat([i \in 1..Len(from) |->
               <<from[i].relation.name[1]>>
               \o [j \in 1..Len(from[i].joins) |-> from[i].joins[j].relation.name[1]]])

ColumnNames(name) ==
    LET columns == find_table_by_name(catalog, "default", name).v[1].columns
    IN  [i \in 1..Len(columns) |-> columns[i].name]

\* the field names of a select list
RefNames(select_stmt) ==
    Concat([i \in 1..Len(select_stmt.projection) |->
               CASE select_stmt.projection[i].k = "Wildcard" ->
                       Concat([t \in 1..Len(FromTables(select_stmt.from)) |->
                                  ColumnNames(FromTables(select_stmt.from)[t])])
                 [] select_stmt.projection[i].k = "ExprWithAlias" ->
                       <<select_stmt.projection[i].alias>>
                 [] OTHER -> <<"?column?">>])

\* C8: for every SELECT that binds and executes, there are as many fields as values
\* in each returned tuple, and the i-th field name is the alias of the i-th select
\* item: the column name for an expanded *, the explicit alias, "?column?" otherwise.
C8_FieldsMatchTuples ==
    \A statement \in QueryStatements :
        (Answered(statement) /\ last.ok) =>
            /\ \A r \in 1..Len(last.data) : Len(last.data[r]) = Len(last.fields)
            /\ last.fields = RefNames(statement.query)

C8_Witness ==
    /\ Answered(SelectAliased)
    /\ last.ok
    /\ Len(last.data) >= 1
    /\ last.fields = <<"x", "?column?", "?column?">>

Casted == pc = "done" /\ probe.k = "Cast"

\* C9 as stated: d.cast(T').cast(T) is d or Null, and d.cast(T) = d.
C9_RoundTripIsIdentityOrNull ==
    Casted => (probe.same = probe.d /\ probe.back \in {probe.d, NullD})

\* the casts T -> T' that lose nothing, so that the way back returns d
Lossless ==
    { <<"Int", "String">>, <<"Boolean", "Int">>, <<"Boolean", "String">>, <<"Float", "String">> }

\* C9: d.cast(T) = d; d.cast(T').cast(T) = d when T' = T or the cast T -> T' loses
\* nothing; otherwise it is Null, or the value of type T that T' maps back to: a value
\* with the same cast to T' as d, which is d only when d is of that form.
C9_RoundTripIsCanonical ==
    Casted =>
        /\ probe.same = probe.d
        /\ (probe.dest = typ(probe.d) \/ <<typ(probe.d), probe.dest>> \in Lossless) =>
              probe.back = probe.d
        /\ \/ probe.back = NullD
           \/ /\ typ(probe.back) = typ(probe.d)
              /\ cast(probe.back, probe.dest) = probe.there
              /\ cast(probe.there, typ(probe.d)) = probe.back

C9_Witness ==
    /\ Casted
    /\ probe.d = StringD(<<"0", "1">>)
    /\ probe.dest = "Int"
    /\ probe.back = StringD(<<"1">>)

Resolved == pc = "done" /\ probe.k = "TypeCheck"

\* an overload accepts the arguments: same arity, every parameter Any, the argument's
\* type, or an implicit-cast target of it
Accepts(candidate, args) ==
    /\ Len(candidate.arg_types) = Len(args)
    /\ \A i \in 1..Len(args) :
          \/ candidate.arg_types[i] = "Any"
          \/ candidate.arg_types[i] = ExprTyp(args[i])
          \/ <<ExprTyp(args[i]), candidate.arg_types[i]>> \in AUTO_CAST

\* C10: overload resolution returns the first overload in registration order that
\* accepts the arguments; an argument whose type differs from a non-Any parameter is
\* wrapped in the to_<parameter> cast, every other argument is left as it is; with no
\* accepting overload the result is a CatalogError.  The outcome is a function of the
\* name and the argument types alone.
C10_FirstMatchingOverload ==
    Resolved =>
        LET candidates == search_candidates(probe.name)
            accepting == {c \in 1..Len(candidates) : Accepts(candidates[c], probe.args)}
            first == CHOOSE c \in accepting : \A other \in accepting : c <= other
        IN  IF accepting = {} THEN probe.out = Err("CatalogError")
            ELSE /\ probe.out.ok
                 /\ probe.out.v.k = "Function"
                 /\ probe.out.v.func = candidates[first]
                 /\ Len(probe.out.v.args) = Len(probe.args)
                 /\ \A i \in 1..Len(probe.args) :
                       LET parameter == candidates[first].arg_types[i]
                       IN  IF parameter = "Any" \/ parameter = ExprTyp(probe.args[i])
                           THEN probe.out.v.args[i] = probe.args[i]
                           ELSE /\ probe.out.v.args[i].k = "Function"
                                /\ probe.out.v.args[i].func =
                                      ScalarFunction(cast_func_name(parameter), <<"Any">>, parameter)
                                /\ probe.out.v.args[i].args = <<probe.args[i]>>

C10_Witness ==
    /\ Resolved
    /\ probe.name = "+"
    /\ probe.args = <<ColumnE(0, "Int"), ColumnE(1, "Float")>>
    /\ probe.out.ok
    /\ probe.out.v.func = ScalarFunction("+", <<"Int", "Int">>, "Int")
    /\ probe.out.v.args[2].k = "Function"

(***************************************************************************)
(* Properties of the catalog, the row store and the session under          *)
(* definition statements.                                                  *)
(***************************************************************************)
\* a statement is taken from the waiting session and answered
Executes == pc = "ready" /\ pc' = "done"

UniqueNames(cat) ==
    /\ \A i, j \in 1..Len(cat) : cat[i].name = cat[j].name => i = j
    /\ \A i \in 1..Len(cat) :
          \A a, b \in 1..Len(cat[i].tables) :
              cat[i].tables[a].name = cat[i].tables[b].name => a = b

\* the (schema, table) names the catalog holds
CatalogTables(cat) ==
    UNION {{<<cat[i].name, cat[i].tables[a].name>> : a \in 1..Len(cat[i].tables)} :
              i \in 1..Len(cat)}

\* the statement creates a schema or a table that the catalog already holds
CreatesExisting(cat, cur, statement) ==
    \/ /\ statement.k = "CreateSchema"
       /\ exists_schema(cat, statement.schema_name)
    \/ /\ statement.k = "CreateTable"
       /\ <<IF Len(statement.name) = 1 THEN cur ELSE statement.name[1],
             statement.name[Len(statement.name)]>> \in CatalogTables(cat)

C11_Step ==
    /\ UniqueNames(catalog')
    /\ Executes /\ CreatesExisting(catalog, current_schema, last'.statement) =>
          /\ ~last'.ok
          /\ last'.err = "CatalogError"
          /\ catalog' = catalog

\* C11: after every statement, failed ones included, no two schemas of the catalog
\* share a name and no two tables of one schema share a name; a CREATE SCHEMA or
\* CREATE TABLE of a name the catalog already holds fails with CatalogError and leaves
\* the catalog as it was.
C11_NamesStayUnique == [][C11_Step]_vars

C11_Witness ==
    /\ Answered(CreateTableIn("s"))
    /\ <<"s", "t">> \in CatalogTables(catalog)
    /\ current_schema = "default"
    /\ ~last.ok
    /\ last.err = "CatalogError"

\* C12: after every statement the (schema, table) keys of the row store are the
\* tables of the catalog: CREATE TABLE adds the relation, DROP TABLE and DROP SCHEMA
\* remove the relations of what they drop.
C12_StoreMirrorsCatalog == DOMAIN relations = CatalogTables(catalog)

\* the (schema, table) an INSERT or a single-table SELECT names, under the schema in use
NamedTable(cur, statement) ==
    LET name == IF statement.k = "Insert" THEN statement.table_name
                ELSE statement.query.from[1].relation.name
    IN  <<IF Len(name) = 1 THEN cur ELSE name[1], name[Len(name)]>>

\* the answered statement is an INSERT or a SELECT that names a table the catalog lacks
AbsentTable ==
    /\ pc = "done"
    /\ last.statement.k \in {"Insert", "Query"}
    /\ NamedTable(current_schema, last.statement) \notin CatalogTables(catalog)

\* C13: a SELECT whose FROM names a table absent from the catalog, and an INSERT into
\* such a table, fail with PlannerError, and no executor has been built, opened or
\* closed.
C13_AbsentTableIsPlannerError ==
    AbsentTable =>
        /\ ~last.ok
        /\ last.err = "PlannerError"
        /\ last.closed = <<>>

SchemaNames(cat) == {cat[i].name : i \in 1..Len(cat)}

\* the object a DROP names, as a (schema, table) pair or as a schema name
Dropped(cur, statement, i) ==
    IF statement.object_type = "Table"
    THEN <<IF Len(statement.names[i]) = 1 THEN cur ELSE statement.names[i][1],
           statement.names[i][Len(statement.names[i])]>>
    ELSE statement.names[i][1]

Present(cat, statement, object) ==
    IF statement.object_type = "Table" THEN object \in CatalogTables(cat)
    ELSE object \in SchemaNames(cat)

\* the answered statement is a DROP of two objects that found the first and not the second
DropMissedSecond ==
    /\ pc = "done"
    /\ last.statement.k = "Drop"
    /\ Len(last.statement.names) = 2
    /\ Present(probe.ctx.catalog, last.statement,
               Dropped(probe.ctx.current_schema, last.statement, 1))
    /\ ~Present(probe.ctx.catalog, last.statement,
                Dropped(probe.ctx.current_schema, last.statement, 2))

\* the first object is gone and nothing else of the catalog has changed
FirstStaysDropped ==
    LET first == Dropped(probe.ctx.current_schema, last.statement, 1)
    IN  /\ ~last.ok
        /\ last.err = "CatalogError"
        /\ current_schema = probe.ctx.current_schema
        /\ IF last.statement.object_type = "Table"
           THEN /\ CatalogTables(catalog) = CatalogTables(probe.ctx.catalog) \ {first}
                /\ SchemaNames(catalog) = SchemaNames(probe.ctx.catalog)
                /\ relations = drop_relation(probe.ctx.relations, first[1], first[2])
           ELSE /\ SchemaNames(catalog) = SchemaNames(probe.ctx.catalog) \ {first}
                /\ CatalogTables(catalog) =
                      {table \in CatalogTables(probe.ctx.catalog) : table[1] # first}

C14_Step ==
    /\ DropMissedSecond' => FirstStaysDropped'
    /\ DropMissedSecond =>
          /\ pc' = "ready"
          /\ UNCHANGED <<catalog, relations, current_schema>>

\* C14: a DROP TABLE a, b or DROP SCHEMA a, b that finds a and not b returns
\* CatalogError and leaves a dropped, with nothing rolled back; the error is then
\* returned and the session waits for the next statement on the context as the failed
\* statement left it.
C14_NoRollback == [][C14_Step]_vars

C14_Witness ==
    /\ DropMissedSecond
    /\ last.statement = DropTwoTablesIn("")
    /\ probe.ctx.current_schema = "s"
    /\ Len(probe.ctx.relations[<<"s", "t">>]) = 1
    /\ <<"s", "t">> \notin DOMAIN relations
    /\ last.err = "CatalogError"

\* the executor execute_plan built for the answered statement
RootExecutor ==
    build(probe.ctx,
          bind_statement(probe.ctx.catalog, probe.ctx.current_schema, last.statement).v.plan,
          [i \in 1..MaxRows |-> i])

\* the answered statement was bound and its executor built, and open or next of that
\* executor returned the error
RootFailed ==
    /\ pc = "done"
    /\ bind_statement(probe.ctx.catalog, probe.ctx.current_schema, last.statement).ok
    /\ RootExecutor.ok
    /\ ~last.ok

WithSchema(cur, name) == IF Len(name) = 1 THEN <<cur>> \o name ELSE name

\* the statement with the schema cur written where it names a table without one, or
\* names no schema to list
RECURSIVE Qualified(_, _)
Qualified(cur, statement) ==
    CASE statement.k = "Explain" -> [statement EXCEPT !.statement = Qualified(cur, @)]
      [] statement.k = "CreateTable" -> [statement EXCEPT !.name = WithSchema(cur, @)]
      [] statement.k = "Insert" -> [statement EXCEPT !.table_name = WithSchema(cur, @)]
      [] statement.k = "Query" ->
            [statement EXCEPT !.query.from[1].relation.name = WithSchema(cur, @)]
      [] statement.k = "Drop" /\ statement.object_type = "Table" ->
            [statement EXCEPT !.names = [i \in 1..Len(@) |-> WithSchema(cur, @[i])]]
      [] statement.k = "ShowTables" ->
            [statement EXCEPT !.db_name = IF Len(@) = 0 THEN <<cur>> ELSE @]
      [] OTHER -> statement

\* the answered statement has had the outcome result: the response, the catalog and
\* the row store
SameOutcome(result) ==
    /\ last.ok = result.ok
    /\ last.err = result.err
    /\ last.fields = result.fields
    /\ last.data = result.data
    /\ catalog = result.ctx.catalog
    /\ relations = result.ctx.relations

\* the answered statement, when it names no schema, has had the outcome of the same
\* statement with the schema in use written out, and when it names its schemas, the
\* outcome it has under every schema in use
ResolvedInSchemaInUse ==
    /\ SameOutcome(SessionExecute(probe.ctx,
                                  Qualified(probe.ctx.current_schema, last.statement),
                                  [i \in 1..MaxRows |-> i]))
    /\ Qualified("r", last.statement) = last.statement =>
          \A cur \in {"default", "s", "r"} :
              SameOutcome(SessionExecute([probe.ctx EXCEPT !.current_schema = cur],
                                         last.statement, [i \in 1..MaxRows |-> i]))

C17_Step ==
    /\ current_schema' = IF Executes /\ last'.statement.k = "Use"
                         THEN last'.statement.db_name
                         ELSE current_schema
    /\ Executes /\ last'.statement.k = "Use" => last'.ok

\* C17: a USE s makes s the schema in use, whether or not it exists, and no other
\* step changes the schema in use; a CREATE TABLE, INSERT, SELECT, DROP TABLE or SHOW
\* TABLES that names no schema has the outcome of the same statement with the schema
\* in use written out; a statement that names its schemas has the same outcome under
\* every schema in use.
C17_UseSetsTheSchema ==
    /\ [][C17_Step]_vars
    /\ [](pc = "done" => ResolvedInSchemaInUse)

C17_Witness ==
    /\ Answered(InsertIn(""))
    /\ last.ok
    /\ current_schema = "s"
    /\ <<"default", "t">> \in DOMAIN relations
    /\ Len(relations[<<"default", "t">>]) = 0
    /\ Len(probe.ctx.relations[<<"s", "t">>]) = 0
    /\ Len(relations[<<"s", "t">>]) = 1

(***************************************************************************)
(* Properties of overload matching on String arguments.                    *)
(***************************************************************************)
\* the implicit coercions the matching is to accept: those of AUTO_CAST and String to
\* Int, Float and Boolean
Coercions ==
    AUTO_CAST \cup {<<"String", "Int">>, <<"String", "Float">>, <<"String", "Boolean">>}

\* an overload is to accept the arguments: same arity, every parameter Any, the
\* argument's type, or a coercion target of it
Coerces(candidate, args) ==
    /\ Len(candidate.arg_types) = Len(args)
    /\ \A i \in 1..Len(args) :
          \/ candidate.arg_types[i] = "Any"
          \/ candidate.arg_types[i] = ExprTyp(args[i])
          \/ <<ExprTyp(args[i]), candidate.arg_types[i]>> \in Coercions

\* the argument as the overload receives it: as it is, or wrapped in the cast to the
\* parameter type
Coerced(arg, parameter) ==
    IF parameter = "Any" \/ parameter = ExprTyp(arg) THEN arg
    ELSE FunctionE(ScalarFunction(cast_func_name(parameter), <<"Any">>, parameter), <<arg>>)

\* C20: overload matching accepts a String argument for an Int, Float or Boolean
\* parameter as it accepts the other implicit coercions: the call resolves to the
\* first overload in registration order whose parameters the arguments equal or
\* coerce to, so s + 1 is the (Int, Int) overload of + with s wrapped in to_int, and
\* s > 1 is the (Int, Int) overload of >.
C20_StringIsCoerced ==
    Resolved =>
        LET candidates == search_candidates(probe.name)
            coercing == {c \in 1..Len(candidates) : Coerces(candidates[c], probe.args)}
            first == CHOOSE c \in coercing : \A other \in coercing : c <= other
        IN  coercing # {} =>
                /\ probe.out.ok
                /\ probe.out.v.func = candidates[first]
                /\ probe.out.v.args =
                      [i \in 1..Len(probe.args) |->
                          Coerced(probe.args[i], candidates[first].arg_types[i])]

(***************************************************************************)
(* Properties of count.                                                    *)
(***************************************************************************)
\* the number of rows whose column c (from 1) is not Null
CountNotNull(rows, c) == Cardinality({r \in 1..Len(rows) : ~is_null(rows[r][c])})

\* C19: over a table t(a, b), count(b) is bound and returns the number of rows whose b
\* is not Null; count(*) returns the number of rows, and under GROUP BY b the number
\* of rows of each group.
C19_CountCounts ==
    pc = "done" /\ Exists("t") =>
        /\ last.statement = SelectCountColumn =>
              /\ last.ok
              /\ last.data = << <<IntD(CountNotNull(Stored("t"), 2))>> >>
        /\ last.statement = SelectCountStar =>
              /\ last.ok
              /\ last.data = << <<IntD(Len(Stored("t")))>> >>
        /\ last.statement = SelectCountGrouped =>
              /\ last.ok
              /\ Len(last.data) = Cardinality({Stored("t")[r][2] : r \in 1..Len(Stored("t"))})
              /\ \A g \in 1..Len(last.data) :
                    last.data[g][2] =
                        IntD(Cardinality({r \in 1..Len(Stored("t")) :
                                             Stored("t")[r][2] = last.data[g][1]}))

(***************************************************************************)
(* Properties of the arithmetic functions.                                 *)
(***************************************************************************)
\* an (Int, Int) overload has been applied
AppliedToInts == pc = "done" /\ probe.k = "Scalar" /\ probe.func.arg_types = <<"Int", "Int">>

\* C18: on two Ints a and b that are not Null, - returns Int(a - b) and + returns
\* Int(a + b); with a Null argument both return Null.
C18_IntArithmetic ==
    AppliedToInts =>
        probe.out = IF is_null(probe.args[1]) \/ is_null(probe.args[2]) THEN NullD
                    ELSE IF probe.func.name = "-"
                    THEN IntD(probe.args[1].i - probe.args[2].i)
                    ELSE IntD(probe.args[1].i + probe.args[2].i)

(***************************************************************************)
(* Properties of the server.                                               *)
(***************************************************************************)
\* Session::execute run in one piece on the context the guard's holder found
Alone(c) == SessionExecute(probe.ctx, last[c].statement, [i \in 1..MaxRows |-> i])

\* C16: at most one connection is inside Session::execute, or between it and the
\* return of its handler, at any time; until its statement has run, the context is the
\* one the holder found when it took the guard, and once it has run, the response and
\* the context are those of Session::execute run alone on that context: statements
\* take effect whole, in the order the guard was taken.
C16_Serialized ==
    /\ Cardinality(Guarded) <= 1
    /\ \A c \in Guarded :
          /\ probe.holder = c
          /\ IF pc[c] = "executed"
             THEN /\ QueryContext(catalog, relations, current_schema) = Alone(c).ctx
                  /\ last[c].result = [Alone(c) EXCEPT !.ctx = <<>>]
             ELSE QueryContext(catalog, relations, current_schema) = probe.ctx

C16_Witness ==
    /\ pc[1] = "executed"
    /\ pc[2] = "waiting"
    /\ last[1].statement = SelectIn("")
    /\ last[2].statement = InsertIn("")
    /\ last[1].result.ok
    /\ Len(last[1].result.data) = 1

(***************************************************************************)
(* Properties of the schemas the executor builder returns.                 *)
(***************************************************************************)
\* the nodes of a plan, the plan itself included
RECURSIVE PlanNodes(_)
PlanNodes(plan) ==
    {plan} \cup
        CASE plan.k \in {"Project", "Filter", "Map", "Aggregate"} -> PlanNodes(plan.input)
          [] plan.k = "Join" -> PlanNodes(plan.left) \cup PlanNodes(plan.right)
          [] OTHER -> {}

\* the session's context
Context == QueryContext(catalog, relations, current_schema)

InOrder == [i \in 1..MaxRows |-> i]

\* the schema describes the tuple: as many types as values, every value Null or of
\* the type at its position
Describes(schema, tuple) ==
    /\ Len(schema) = Len(tuple)
    /\ \A i \in 1..Len(tuple) : is_null(tuple[i]) \/ typ(tuple[i]) = schema[i]

\* the node's executor, run on its own, emits only tuples its schema describes
SchemaHolds(node) ==
    build_inner(Context, node, InOrder).ok /\ execute_plan(Context, node, InOrder).ok =>
        \A r \in 1..Len(execute_plan(Context, node, InOrder).data) :
            Describes(build_inner(Context, node, InOrder).v.schema,
                      execute_plan(Context, node, InOrder).data[r])

\* a query has been answered, and it was bound
QueryBound ==
    /\ pc = "done"
    /\ last.statement.k = "Query"
    /\ bind_statement(catalog, current_schema, last.statement).ok

\* C21: for every node of the plan of a query, the Schema the builder returns for the
\* node describes every tuple the node's executor emits, for Aggregate nodes with and
\* without GROUP BY.
C21_SchemaDescribesTuples ==
    QueryBound =>
        \A node \in PlanNodes(bind_statement(catalog, current_schema, last.statement).v.plan) :
            SchemaHolds(node)

(***************************************************************************)
(* Properties of INSERT.                                                   *)
(***************************************************************************)
\* the relation an answered INSERT names
InsertTarget == <<current_schema, last.statement.table_name[1]>>

\* an INSERT into a table that exists has been answered
InsertAnswered ==
    /\ pc = "done"
    /\ last.statement.k = "Insert"
    /\ InsertTarget \in DOMAIN inserted

\* the number of columns of the table an answered INSERT names
InsertArity ==
    Len(find_table_by_name(catalog, InsertTarget[1], InsertTarget[2]).v[1].columns)

\* some row of the VALUES list has the wrong number of values or a value that is no
\* literal
Malformed(rows, arity) ==
    \E r \in 1..Len(rows) :
        \/ Len(rows[r]) # arity
        \/ \E c \in 1..Len(rows[r]) : rows[r][c].k # "Value"

StarAnswered ==
    /\ pc = "done"
    /\ last.statement.k = "Query"
    /\ last.statement.query.projection = <<Wildcard>>
    /\ Len(last.statement.query.from) > 0
    /\ last.statement.query.selection = <<>>
    /\ last.statement.query.group_by = <<>>

\* the elements of the FROM clause as the binder binds them
FromBound ==
    [i \in 1..Len(last.statement.query.from) |->
        bind_table_with_joins(catalog, current_schema, last.statement.query.from[i])]

\* the FROM scope: the scopes of the elements, in order
FromScope == Concat([i \in 1..Len(FromBound) |-> FromBound[i].v.scope])

\* the statement binds to a projection of the FROM scope's variables, each once, in
\* scope order
BindsToScope ==
    /\ bind_statement(catalog, current_schema, last.statement).ok
    /\ bind_statement(catalog, current_schema, last.statement).v.plan.k = "Project"
    /\ bind_statement(catalog, current_schema, last.statement).v.plan.projections
           = [i \in 1..Len(FromScope) |-> i - 1]

\* C23: for every FROM clause the binder accepts, the same table listed twice and
\* derived tables included, SELECT * binds and outputs one column per Variable of the
\* FROM scope, in scope order.
C23_WildcardBindsToScope ==
    (StarAnswered /\ AllOk(FromBound)) => BindsToScope

\* no two variables of the FROM scope have the same prefix and name
DistinctVariables ==
    \A i, j \in 1..Len(FromScope) :
        (FromScope[i].prefix = FromScope[j].prefix /\ FromScope[i].name = FromScope[j].name)
            => i = j

\* the same, for the FROM clauses whose variables differ in prefix or name
WildcardBindsToDistinctScope ==
    (StarAnswered /\ AllOk(FromBound) /\ DistinctVariables) => BindsToScope

(***************************************************************************)
(* Properties of the statements that leave the context alone.              *)
(***************************************************************************)
\* the answered statement as the binder bound it in the context it found
BoundBefore ==
    bind_statement(probe.ctx.catalog, probe.ctx.current_schema, last.statement)

\* the executor the builder made of it
BuiltBefore == build(probe.ctx, BoundBefore.v.plan, InOrder)

\* a statement has been answered, and probe holds the context it found
RunAnswered == pc = "done" /\ probe.k = "Before"

\* the statement is a SELECT, a SHOW TABLES or an EXPLAIN
Reads == last.statement.k \in {"Query", "ShowTables", "Explain"}

\* the statement failed in the binder or in the executor builder
FailsEarly == ~BoundBefore.ok \/ ~BuiltBefore.ok

\* the plan is a DDL create or drop job, a DML insert job or a Use
Writes(plan) ==
    \/ plan.k = "DDL" /\ plan.job.k \in {"CreateSchema", "DropSchemas", "CreateTable", "DropTables"}
    \/ plan.k = "DML" /\ plan.job.k = "Insert"
    \/ plan.k = "Use"

\* C24: a SELECT, a SHOW TABLES, an EXPLAIN (of any statement) and a statement that
\* fails in the binder or the executor builder leave catalog, relations and
\* current_schema as they found them; when one of the three has changed, the statement
\* was bound to a DDL create or drop job, a DML insert job or a Use.
C24_OnlyJobsChangeTheContext ==
    RunAnswered =>
        /\ (Reads \/ FailsEarly) => Context = probe.ctx
        /\ Context # probe.ctx => (BoundBefore.ok /\ Writes(BoundBefore.v.plan))

\* EXPLAIN INSERT has been answered with the plan's text, and the table holds the one
\* row it held before
C24_Witness ==
    /\ Answered(ExplainStmt(InsertIn("")))
    /\ last.ok
    /\ last.data = << <<StringD(<<"Insert">>)>> >>
    /\ Exists("t")
    /\ Len(Stored("t")) = 1
    /\ Context = probe.ctx

(***************************************************************************)
(* Properties of the tuples in the row store.                              *)
(***************************************************************************)
\* the tuples stored for the table are described by the table's columns
TuplesFit(schema_name, table_def) ==
    <<schema_name, table_def.name>> \in DOMAIN relations =>
        \A r \in 1..Len(relations[<<schema_name, table_def.name>>]) :
            Describes([c \in 1..Len(table_def.columns) |-> table_def.columns[c].data_type],
                      relations[<<schema_name, table_def.name>>][r])

\* C25: every tuple stored for a table that is defined in the catalog has as many
\* values as the table has columns, each Null or of the declared type of its column.
C25_StoredTuplesFitTheirTable ==
    \A i \in 1..Len(catalog) :
        \A a \in 1..Len(catalog[i].tables) : TuplesFit(catalog[i].name, catalog[i].tables[a])

\* t(a varchar, b int) holds the row of INSERT INTO t VALUES ('x', 'x'): the second
\* value, which is no number, is stored as Null
C25_Witness ==
    /\ Exists("t")
    /\ find_table_by_name(catalog, "default", "t").v[1].columns
           = <<ColumnDefinition("a", "String", FALSE), ColumnDefinition("b", "Int", FALSE)>>
    /\ Stored("t") = << <<StringD(<<"x">>), NullD>> >>

(***************************************************************************)
(* Properties of the relations of the catalog's tables.                    *)
(***************************************************************************)
\* C26: every table the catalog defines has a relation in the row store, and no
\* statement is answered with the error of a Scan or an Insert that finds no
\* relation ("cannot find storage", an UnknownError).
C26_EveryTableHasARelation ==
    /\ CatalogTables(catalog) \subseteq DOMAIN relations
    /\ pc = "done" => last.err # "UnknownError"

\* SELECT * FROM s.t has returned the row inserted into s.t
C26_Witness ==
    /\ Answered(SelectIn("s"))
    /\ last.ok
    /\ Len(last.data) = 1
    /\ <<"s", "t">> \in CatalogTables(catalog)

(***************************************************************************)
(* Properties of CREATE TABLE on the row store.                            *)
(***************************************************************************)
\* a CREATE TABLE has been answered, and probe holds the context it found
CreateTableAnswered == RunAnswered /\ last.statement.k = "CreateTable"

\* the relation the answered CREATE TABLE names
Created == WithSchema(probe.ctx.current_schema, last.statement.name)

\* C27: after a successful CREATE TABLE the table's relation holds no row, whatever
\* the row store held under that name before; a CREATE TABLE that fails because the
\* table exists leaves the rows of the table as they were.
C27_CreatedTableIsEmpty ==
    CreateTableAnswered =>
        /\ last.ok => (Created \in DOMAIN relations /\ relations[Created] = <<>>)
        /\ (~last.ok /\ Created \in CatalogTables(probe.ctx.catalog)) =>
              (Created \in DOMAIN relations /\ relations[Created] = probe.ctx.relations[Created])

\* CREATE TABLE s.t has succeeded where the row store still held a row of the s.t of
\* a schema s that was dropped and created again
C27_Witness ==
    /\ Answered(CreateTableIn("s"))
    /\ last.ok
    /\ <<"s", "t">> \in DOMAIN probe.ctx.relations
    /\ Len(probe.ctx.relations[<<"s", "t">>]) = 1
    /\ relations[<<"s", "t">>] = <<>>

\* CREATE TABLE of an existing table that holds a row has been refused
CreateRefused ==
    /\ CreateTableAnswered
    /\ ~last.ok
    /\ Created \in CatalogTables(probe.ctx.catalog)
    /\ Len(relations[Created]) = 1

(***************************************************************************)
(* Properties of the schema in use.                                        *)
(***************************************************************************)
\* a USE of a schema the catalog did not hold has been answered
UseOfMissing ==
    /\ RunAnswered
    /\ last.statement.k = "Use"
    /\ ~exists_schema(probe.ctx.catalog, last.statement.db_name)

\* C30: current_schema names a schema of the catalog; a USE of a schema that does
\* not exist fails and leaves current_schema as it was.
C30_SchemaInUseExists ==
    /\ exists_schema(catalog, current_schema)
    /\ UseOfMissing => (~last.ok /\ current_schema = probe.ctx.current_schema)

\* the schema in use has been dropped by a successful DROP SCHEMA
DroppedInUse ==
    /\ RunAnswered
    /\ last.statement.k = "Drop"
    /\ last.ok
    /\ exists_schema(probe.ctx.catalog, current_schema)
    /\ ~exists_schema(catalog, current_schema)

\* the schema in use exists unless a USE named a missing schema or a DROP SCHEMA
\* dropped it: without USE and DROP SCHEMA it is "default", which exists
SchemaInUseIsLastUse ==
    RunAnswered =>
        current_schema = IF last.statement.k = "Use" THEN last.statement.db_name
                         ELSE probe.ctx.current_schema

(***************************************************************************)
(* The executor protocol, call by call (sql/runtime/mod.rs, executor.rs):  *)
(* an executor is built for a node of a bound plan and opened, next is     *)
(* called until it returns None, and the executor is closed.  A caller may *)
(* call next again after None, at most MaxAgain times.  No call changes    *)
(* the context, so what the calls return is fixed once the executor is     *)
(* open: probe.calls lists the outcomes of the calls in order, at most     *)
(* MaxCalls of them up to the first None, and each step makes the next     *)
(* one.  probe also holds the executor as the calls made so far left it,   *)
(* the number of None returned, the outcomes of the calls after the first  *)
(* None, and, as history, the scan cursors before the last call.           *)
(* last.data collects the tuples.                                          *)
(***************************************************************************)
MaxAgain == 2

\* no plan over tables of MaxRows rows returns more tuples than a join of two
MaxCalls == MaxRows * MaxRows + 1

\* SELECT * FROM t, t AS w
SelectSelfJoin ==
    QueryStmt(Select(<<Wildcard>>, <<From("t"), FromAs("t", "w")>>, <<>>, <<>>, <<>>))

DefineStatements == {InsertT1, InsertT2, InsertT3}

PlanStatements ==
    {SelectWhereGt, SelectOneComputed, SelectSelfJoin, SelectAggregates, SelectGrouped,
     ShowTablesStmt(<<>>), ExplainStmt(SelectStarT)}

\* the scans of an executor tree, in children order: the relation and the cursor
RECURSIVE ScanCursors(_)
ScanCursors(exec) ==
    IF exec.k = "Scan"
    THEN << [key |-> <<exec.schema_name, exec.table_name>>, cursor |-> exec.cursor] >>
    ELSE Concat([i \in 1..Len(children_mut(exec)) |-> ScanCursors(children_mut(exec)[i])])

\* the outcome of one call of next on exec: the result and the executor afterwards
Called(exec, pulled) ==
    [ok |-> pulled.ok, err |-> pulled.err,
     tuple |-> IF pulled.ok THEN pulled.v.tuple ELSE <<>>,
     exec |-> IF pulled.ok THEN pulled.v.exec ELSE exec]

RECURSIVE CallsAfter(_, _, _)

\* CallsAfter, given pulled
CallsAfter_pulled(exec, ctx, n, pulled) ==
    <<Called(exec, pulled)>> \o CallsAfter(Called(exec, pulled).exec, ctx, n - 1)

\* n calls of next on an executor that has returned None
CallsAfter(exec, ctx, n) ==
    IF n = 0 THEN <<>> ELSE CallsAfter_pulled(exec, ctx, n, ExecNext(exec, ctx))

RECURSIVE CallsOfNext(_, _, _)

\* CallsOfNext, given pulled
CallsOfNext_pulled(exec, ctx, n, pulled) ==
    <<Called(exec, pulled)>> \o
        (IF ~pulled.ok THEN <<>>
         ELSE IF Len(pulled.v.tuple) = 0 THEN CallsAfter(pulled.v.exec, ctx, MaxAgain)
         ELSE CallsOfNext(pulled.v.exec, ctx, n - 1))

\* the calls of next on exec: up to n calls until an error or the first None, and
\* MaxAgain calls after that None
CallsOfNext(exec, ctx, n) ==
    IF n = 0 THEN <<>> ELSE CallsOfNext_pulled(exec, ctx, n, ExecNext(exec, ctx))

Running(exec, calls) ==
    [k |-> "Running", exec |-> exec, calls |-> calls, made |-> 0, nones |-> 0,
     again |-> <<>>, before |-> ScanCursors(exec)]

\* execute_plan returns the error through `?`
Fail(statement, err) ==
    /\ pc' = "done"
    /\ last' = [statement |-> statement, ok |-> FALSE, err |-> err, fields |-> <<>>,
                data |-> last.data, closed |-> <<>>]

\* Open, given opened
Open_opened(statement, opened) ==
    /\ catalog' = opened.ctx.catalog
    /\ relations' = opened.ctx.relations
    /\ current_schema' = opened.ctx.current_schema
    /\ IF ~opened.ok THEN Fail(statement, opened.err) /\ probe' = NoProbe
       ELSE /\ pc' = "pulling"
            /\ last' = [statement |-> statement, ok |-> TRUE, err |-> "None",
                        fields |-> <<>>, data |-> <<>>, closed |-> <<>>]
            /\ probe' = Running(opened.exec, CallsOfNext(opened.exec, opened.ctx, MaxCalls))

\* Open, given executor
Open_executor(statement, executor) ==
    IF ~executor.ok
    THEN /\ Fail(statement, executor.err)
         /\ probe' = NoProbe
         /\ UNCHANGED <<catalog, relations, current_schema>>
    ELSE Open_opened(statement,
                     ExecOpen(executor.v, QueryContext(catalog, relations, current_schema)))

\* the nodes of the plan the statement is bound to
BoundNodes(statement) ==
    IF bind_statement(catalog, current_schema, statement).ok
    THEN PlanNodes(bind_statement(catalog, current_schema, statement).v.plan)
    ELSE {}

\* ExecutorBuilder::build and Executor::open in execute_plan, for a node of the plan
Open(statement, iter_order) ==
    /\ pc = "ready"
    /\ \E node \in BoundNodes(statement) :
          Open_executor(statement,
                        build(QueryContext(catalog, relations, current_schema), node, iter_order))
    /\ UNCHANGED inserted

\* the call of next that is due
Due == probe.calls[probe.made + 1]

\* one turn of `while let Some(tuple) = executor.next(ctx)?` in execute_plan
CallNext ==
    /\ pc = "pulling"
    /\ probe.nones = 0
    /\ probe.made < Len(probe.calls)
    /\ IF ~Due.ok THEN Fail(last.statement, Due.err) /\ probe' = probe
       ELSE /\ pc' = pc
            /\ last' = [last EXCEPT !.data = @ \o Due.tuple]
            /\ probe' = [probe EXCEPT !.exec = Due.exec,
                                      !.made = @ + 1,
                                      !.nones = IF Len(Due.tuple) = 0 THEN 1 ELSE 0,
                                      !.before = ScanCursors(probe.exec)]
    /\ UNCHANGED <<catalog, relations, current_schema, inserted>>

\* a call of next on an executor that has returned None
CallAgain ==
    /\ pc = "pulling"
    /\ probe.nones \in 1..MaxAgain
    /\ probe.made < Len(probe.calls)
    /\ probe' = [probe EXCEPT !.exec = Due.exec,
                              !.made = @ + 1,
                              !.nones = @ + 1,
                              !.again = Append(@, [ok |-> Due.ok, tuple |-> Due.tuple]),
                              !.before = ScanCursors(probe.exec)]
    /\ UNCHANGED <<catalog, relations, current_schema, pc, last, inserted>>

\* executor.close(ctx) and the return of execute_plan
Close ==
    /\ pc = "pulling"
    /\ probe.nones >= 1
    /\ pc' = "done"
    /\ last' = [last EXCEPT !.closed = ExecClose(probe.exec)]
    /\ UNCHANGED <<catalog, relations, current_schema, inserted, probe>>

NextExecutor ==
    \/ CreateTable(CreateT)
    \/ \E statement \in DefineStatements : Insert(statement)
    \/ \E statement \in PlanStatements :
          \E iter_order \in IF statement.k = "Query" /\ Len(statement.query.group_by) > 0
                             THEN IterOrders ELSE {[i \in 1..MaxRows |-> i]} :
              Open(statement, iter_order)
    \/ CallNext
    \/ CallAgain
    \/ Close
    \/ Respond

SpecExecutor == Init /\ [][NextExecutor]_vars

\* execute_plan runs to its end on the calling thread: a call of next that is due is
\* made, and the executor is closed once it has returned None
SpecExecutorFair == SpecExecutor /\ WF_vars(CallNext) /\ WF_vars(Close)

(***************************************************************************)
(* Properties of the executor protocol.                                    *)
(***************************************************************************)
\* an executor is running or has just been closed
Ran == probe.k = "Running"

\* C28: once next has returned None, every later call of next on the same executor
\* returns None again, without error and without a tuple, the context being the same.
C28_EndOfStreamIsSticky ==
    Ran => \A i \in 1..Len(probe.again) : probe.again[i].ok /\ probe.again[i].tuple = <<>>

\* a HashAggregate over two rows has returned its tuple, then None, and has been
\* called MaxAgain times more
C28_Witness ==
    /\ Ran
    /\ probe.exec.k = "HashAggregate"
    /\ Len(Stored("t")) = 2
    /\ Len(last.data) >= 1
    /\ Len(probe.again) = MaxAgain

\* every scan cursor is where it was before the last call or further, and within the
\* table
CursorsInRange ==
    Ran => \A i \in 1..Len(probe.before) :
               /\ probe.before[i].cursor <= ScanCursors(probe.exec)[i].cursor
               /\ ScanCursors(probe.exec)[i].cursor <= Len(relations[probe.before[i].key])

\* C29: execute_plan returns: an opened executor returns None after finitely many
\* calls of next and is closed; the cursor of a Scan only increases and never exceeds
\* the length of its table.
C29_ExecutionTerminates ==
    /\ []CursorsInRange
    /\ (pc = "pulling") ~> (pc = "done")

\* SELECT * FROM t WHERE a > 1 over two rows has returned: the filter skipped one
\* row, the scan read both
C29_Witness ==
    /\ Answered(SelectWhereGt)
    /\ Ran
    /\ probe.exec.k = "Project"
    /\ Len(Stored("t")) = 2
    /\ Len(last.data) = 1
    /\ ScanCursors(probe.exec)[1].cursor = 2

====
